---------------------------- MODULE Spec2Model ----------------------------
(***************************************************************************)
(* Model of the report pipeline of BAOCAOTL (src/unnamed/part_000: App.tsx *)
(* followed by services/fileProcessor.ts).                                 *)
(*                                                                         *)
(* Representation of JavaScript argData                                       *)
(*   - a string is a sequence of characters; a character is a one-letter   *)
(*     TLA+ string for ASCII and the string "U+XXXX" for any other code    *)
(*     point (the module text itself is ASCII), e.g. "U+0110" is the       *)
(*     capital D with stroke of "ĐATN";                                    *)
(*   - a value is a record [t, s, n]: t is the JavaScript type tag         *)
(*     ("null", "undefined", "string", "number", "NaN"), s the characters  *)
(*     of a string, n the numeric value of a number;                       *)
(*   - a number is held in tenths (28.5 is 285), so the thresholds 25, 30, *)
(*     35, 40 of the source read 250, 300, 350, 400 here.                  *)
(***************************************************************************)
EXTENDS Integers, Sequences, FiniteSets, TLC

VARIABLES
    pc,                       \* position of the harness/handler being run
    tv,                       \* row.tv of the record being classified
    projectType,              \* App state projectType ('ĐATN' | 'BCCĐ')
    isFirstCheck,             \* App state isFirstCheck
    category,                 \* result of getConclusionCategory (part_000:184)
    conclusions,              \* result of getConclusionData (part_000:809)
    templateName,             \* wordTemplateFile.name
    batchSize,                \* mergedData.length handed to generateWordReports
    index,                    \* loop index of generateWordReports (part_000:785)
    effectiveProjectType,     \* generateWordReports' effectiveProjectType
    baseName,                 \* generateWordReports' baseName
    reportsZip,               \* file names added to reportsZip, in order
    statsProjectType,         \* handleGenerateReports' effectiveProjectType
    rawData,                  \* argument of processMainData
    mainProcessed,            \* result of processMainData
    dfMain,                   \* first argument of mergeMainAndRatios
    dfSupp,                   \* second argument of mergeMainAndRatios
    enrichedRows,             \* result of mergeMainAndRatios
    argData,                  \* argument of detectHeaderRow
    argKeywords,              \* argument of detectHeaderRow and findColumn
    resultRow,                \* result of detectHeaderRow
    argHeaders,               \* argument of findColumn
    foundColumn,              \* result of findColumn
    argStr,                   \* argument of normalizeString
    normalized,               \* normalizeString(argStr)
    normalizedTwice,          \* normalizeString(normalizeString(argStr))
    sheet,                    \* the rebuilt table written by generateMergedExcel
    reportData,               \* result of readDataFileForReporting
    mainFile,                 \* App state mainFile (the grid of the file)
    supplementaryFile,        \* App state supplementaryFile
    reportDataFile,           \* App state reportDataFile
    wordTemplateFile,         \* App state wordTemplateFile (its name)
    mergedData,               \* App state mergedData
    dashboardStats,           \* App state dashboardStats
    categorizedProjects,      \* App state categorizedProjects
    activeView,               \* App state activeView
    logs,                     \* App state logs (the types of the entries)
    downloads,                \* the files handed to saveAs, in order
    isProcessing,             \* App state isProcessing
    dataForReport,            \* handleGenerateReports' dataForReport
    closure,                  \* the state values as the running
                              \* handleGenerateReports sees them
    awaited                   \* what the pending await of a handler resolves
                              \* or rejects with

vars == <<pc, tv, projectType, isFirstCheck, category, conclusions,
          templateName, batchSize, index, effectiveProjectType, baseName,
          reportsZip, statsProjectType, rawData, mainProcessed, dfMain,
          dfSupp, enrichedRows, argData, argKeywords, resultRow, argHeaders,
          foundColumn, argStr, normalized, normalizedTwice, sheet, reportData,
          mainFile, supplementaryFile, reportDataFile, wordTemplateFile,
          mergedData, dashboardStats, categorizedProjects, activeView, logs,
          downloads, isProcessing, dataForReport, closure, awaited>>

classifyVars == <<tv, category, conclusions>>
configVars   == <<projectType, isFirstCheck>>
reportVars   == <<templateName, batchSize, index, effectiveProjectType,
                  baseName, reportsZip, statsProjectType>>
mainVars     == <<rawData, mainProcessed>>
mergeVars    == <<dfMain, dfSupp, enrichedRows>>
utilVars     == <<argData, argKeywords, resultRow, argHeaders, foundColumn, argStr,
                  normalized, normalizedTwice>>
sheetVars    == <<sheet, reportData>>
appVars      == <<mainFile, supplementaryFile, reportDataFile,
                  wordTemplateFile, mergedData, dashboardStats,
                  categorizedProjects, activeView, logs, downloads,
                  isProcessing, dataForReport, closure, awaited>>
laterVars    == <<utilVars, sheetVars, appVars>>

(***************************************************************************)
(* JavaScript values                                                       *)
(***************************************************************************)
Null      == [t |-> "null",      s |-> <<>>, n |-> 0]
Undefined == [t |-> "undefined", s |-> <<>>, n |-> 0]
NaN       == [t |-> "NaN",       s |-> <<>>, n |-> 0]
Str(s)    == [t |-> "string",    s |-> s,    n |-> 0]
Num(n)    == [t |-> "number",    s |-> <<>>, n |-> n]

\* typeof v ; NaN is a number
TypeOf(v) == IF v.t = "NaN" THEN "number"
             ELSE IF v.t = "null" THEN "object" ELSE v.t

\* isNaN(v) for a value that is a number or undefined
IsNaN(v) == v.t \in {"NaN", "undefined"}

\* ToBoolean(v): null, undefined, "", 0 and NaN are falsy
Truthy(v) == CASE v.t = "string" -> v.s # <<>>
               [] v.t = "number" -> v.n # 0
               [] OTHER          -> FALSE

\* a[i] of a JavaScript array held as a sequence (0-based index i)
At(a, i) == IF i >= 0 /\ i < Len(a) THEN a[i + 1] ELSE Undefined

(***************************************************************************)
(* Characters                                                              *)
(***************************************************************************)
UPPER == <<"A","B","C","D","E","F","G","H","I","J","K","L","M",
           "N","O","P","Q","R","S","T","U","V","W","X","Y","Z">>
LOWER == <<"a","b","c","d","e","f","g","h","i","j","k","l","m",
           "n","o","p","q","r","s","t","u","v","w","x","y","z">>
DIGITS == <<"0","1","2","3","4","5","6","7","8","9">>

Range(f) == {f[i] : i \in DOMAIN f}

\* The combining diacritical marks U+0300..U+036F that occur in the
\* decompositions below (grave, acute, circumflex, tilde, hook above, horn,
\* dot below).
CombiningMarks == {"U+0300","U+0301","U+0302","U+0303","U+0309","U+031B","U+0323"}

\* String.prototype.normalize('NFD') on one character: the canonical
\* decomposition of the precomposed Vietnamese letters used by the headers and
\* file names of the application; every other character (ASCII, đ U+0111,
\* Đ U+0110) has no decomposition.
NFDChar(c) ==
    CASE c = "U+00EA" -> <<"e","U+0302">>              \* ê
      [] c = "U+00CA" -> <<"E","U+0302">>              \* Ê
      [] c = "U+1EC1" -> <<"e","U+0302","U+0300">>     \* ề
      [] c = "U+1EC0" -> <<"E","U+0302","U+0300">>     \* Ề
      [] c = "U+00E0" -> <<"a","U+0300">>              \* à
      [] c = "U+00C0" -> <<"A","U+0300">>              \* À
      [] c = "U+1ECD" -> <<"o","U+0323">>              \* ọ
      [] c = "U+01B0" -> <<"u","U+031B">>              \* ư
      [] c = "U+1EDD" -> <<"o","U+031B","U+0300">>     \* ờ
      [] c = "U+1EDB" -> <<"o","U+031B","U+0301">>     \* ớ
      [] c = "U+1EAB" -> <<"a","U+0302","U+0303">>     \* ẫ
      [] c = "U+1EAA" -> <<"A","U+0302","U+0303">>     \* Ẫ
      [] c = "U+1EC9" -> <<"i","U+0309">>              \* ỉ
      [] c = "U+1EC7" -> <<"e","U+0323","U+0302">>     \* ệ
      [] OTHER        -> <<c>>

\* String.prototype.toLowerCase on one character
ToLowerChar(c) ==
    IF c = "U+0110" THEN "U+0111"
    ELSE IF \E i \in DOMAIN UPPER : UPPER[i] = c
         THEN LOWER[CHOOSE i \in DOMAIN UPPER : UPPER[i] = c]
         ELSE c

IsAlnum(c) == c \in Range(LOWER) \cup Range(DIGITS)
IsDigit(c) == c \in Range(DIGITS)
DigitVal(c) == (CHOOSE i \in DOMAIN DIGITS : DIGITS[i] = c) - 1

\* White space as String.prototype.trim and parseFloat see it
IsSpace(c) == c \in {" ", "\t"}

(***************************************************************************)
(* Strings                                                                 *)
(***************************************************************************)
RECURSIVE NFD(_)
\* s.normalize('NFD')
NFD(s) == IF s = <<>> THEN <<>> ELSE NFDChar(Head(s)) \o NFD(Tail(s))

\* s.includes(sub)
Includes(s, sub) ==
    \E i \in 0..(Len(s) - Len(sub)) : SubSeq(s, i + 1, i + Len(sub)) = sub

RECURSIVE TrimStart(_)
TrimStart(s) == IF s # <<>> /\ IsSpace(Head(s)) THEN TrimStart(Tail(s)) ELSE s

RECURSIVE TrimEnd(_)
TrimEnd(s) == IF s # <<>> /\ IsSpace(s[Len(s)])
              THEN TrimEnd(SubSeq(s, 1, Len(s) - 1)) ELSE s

\* s.trim()
Trim(s) == TrimEnd(TrimStart(s))

\* s.replace(',', '.'): only the first comma is replaced
ReplaceFirstComma(s) ==
    IF \E i \in DOMAIN s : s[i] = ","
    THEN LET k == CHOOSE i \in DOMAIN s : s[i] = "," /\ \A j \in 1..(i - 1) : s[j] # ","
         IN  [s EXCEPT ![k] = "."]
    ELSE s

NormalizeChars_keepsStroke(s) ==
    LET decomposed == NFD(s)
        stripped   == SelectSeq(decomposed, LAMBDA c : c \notin CombiningMarks)
        lowered    == [i \in DOMAIN stripped |-> ToLowerChar(stripped[i])]
    IN  SelectSeq(lowered, IsAlnum)

normalizeString_keepsStroke(v) ==
    IF v.t # "string" \/ v.s = <<>> THEN <<>> ELSE NormalizeChars_keepsStroke(v.s)

\* normalizeString's non-empty string branch, step by step
NormalizeChars(s) ==
    LET decomposed == NFD(s)
        stripped   == SelectSeq(decomposed, LAMBDA c : c \notin CombiningMarks)
        lowered    == [i \in DOMAIN stripped |-> ToLowerChar(stripped[i])]
        dReplaced  == [i \in DOMAIN lowered |->
                          IF lowered[i] = "U+0111" THEN "d" ELSE lowered[i]]
    IN  SelectSeq(dReplaced, IsAlnum)

\* normalizeString(str: any): string, on a JavaScript value
normalizeString(v) ==
    IF v.t # "string" \/ v.s = <<>> THEN <<>> ELSE NormalizeChars(v.s)


RECURSIVE ToDecimal(_)
\* String(n) / template-literal rendering of a non-negative integer
ToDecimal(n) ==
    IF n < 10 THEN <<DIGITS[n + 1]>>
    ELSE ToDecimal(n \div 10) \o <<DIGITS[(n % 10) + 1]>>

(***************************************************************************)
(* Record Classifier (App.tsx getConclusionCategory, fileProcessor.ts       *)
(* getConclusionData).  Numbers are in tenths.                             *)
(***************************************************************************)
DATN == <<"U+0110","A","T","N">>        \* 'ĐATN'
BCCD == <<"B","C","C","U+0110">>        \* 'BCCĐ'
ProjectTypes == {DATN, BCCD}

\* JavaScript relational operators on a number value and a literal (in
\* tenths); every comparison with NaN is false
LT(v, k) == v.t = "number" /\ v.n < k
LE(v, k) == v.t = "number" /\ v.n <= k
GT(v, k) == v.t = "number" /\ v.n > k
GE(v, k) == v.t = "number" /\ v.n >= k

\* row.tv || 0
OrZero(v) == IF Truthy(v) THEN v ELSE Num(0)

getConclusionCategory_strict(t, pType, first) ==
    IF pType = DATN
    THEN IF LT(t, 250) THEN "withinLimit"
         ELSE IF GT(t, 250) /\ LT(t, 350)
              THEN (IF first THEN "l1Edit" ELSE "l2Process")
              ELSE (IF first THEN "l1Edit" ELSE "l2Exceeded")
    ELSE IF LT(t, 300) THEN "withinLimit"
         ELSE IF GT(t, 300) /\ LT(t, 400)
              THEN (IF first THEN "l1Edit" ELSE "l2Process")
              ELSE (IF first THEN "l1Edit" ELSE "l2Exceeded")

getConclusionCategory(t, pType, first) ==
    IF pType = DATN
    THEN IF LT(t, 250) THEN "withinLimit"
         ELSE IF GE(t, 250) /\ LE(t, 350)
              THEN (IF first THEN "l1Edit" ELSE "l2Process")
              ELSE (IF first THEN "l1Edit" ELSE "l2Exceeded")
    ELSE IF LT(t, 300) THEN "withinLimit"
         ELSE IF GE(t, 300) /\ LE(t, 400)
              THEN (IF first THEN "l1Edit" ELSE "l2Process")
              ELSE (IF first THEN "l1Edit" ELSE "l2Exceeded")

UNCHECKED_BOX == "U+2610"               \* '☐'
CHECKED_BOX   == "U+2611"               \* '☑'

\* the four checkbox fields of getConclusionData's result, all unchecked (the
\* four fixed conclusion sentences ketluan1..4 are the same in every result)
NoBoxes == [kl1_box |-> UNCHECKED_BOX, kl2_box |-> UNCHECKED_BOX,
            kl3_box |-> UNCHECKED_BOX, kl4_box |-> UNCHECKED_BOX]

getConclusionData_swapped(t, pType, first) ==
    IF pType = DATN
    THEN IF LT(t, 250) THEN [NoBoxes EXCEPT !.kl1_box = CHECKED_BOX]
         ELSE IF GE(t, 250) /\ LE(t, 350)
              THEN (IF first THEN [NoBoxes EXCEPT !.kl3_box = CHECKED_BOX]
                             ELSE [NoBoxes EXCEPT !.kl4_box = CHECKED_BOX])
         ELSE IF GT(t, 350)
              THEN (IF first THEN [NoBoxes EXCEPT !.kl3_box = CHECKED_BOX]
                             ELSE [NoBoxes EXCEPT !.kl2_box = CHECKED_BOX])
         ELSE NoBoxes
    ELSE IF LT(t, 300) THEN [NoBoxes EXCEPT !.kl1_box = CHECKED_BOX]
         ELSE IF GE(t, 300) /\ LE(t, 400)
              THEN (IF first THEN [NoBoxes EXCEPT !.kl3_box = CHECKED_BOX]
                             ELSE [NoBoxes EXCEPT !.kl4_box = CHECKED_BOX])
         ELSE IF GT(t, 400)
              THEN (IF first THEN [NoBoxes EXCEPT !.kl3_box = CHECKED_BOX]
                             ELSE [NoBoxes EXCEPT !.kl2_box = CHECKED_BOX])
         ELSE NoBoxes

getConclusionData(t, pType, first) ==
    IF pType = DATN
    THEN IF LT(t, 250) THEN [NoBoxes EXCEPT !.kl1_box = CHECKED_BOX]
         ELSE IF GE(t, 250) /\ LE(t, 350)
              THEN (IF first THEN [NoBoxes EXCEPT !.kl3_box = CHECKED_BOX]
                             ELSE [NoBoxes EXCEPT !.kl2_box = CHECKED_BOX])
         ELSE IF GT(t, 350)
              THEN (IF first THEN [NoBoxes EXCEPT !.kl3_box = CHECKED_BOX]
                             ELSE [NoBoxes EXCEPT !.kl4_box = CHECKED_BOX])
         ELSE NoBoxes
    ELSE IF LT(t, 300) THEN [NoBoxes EXCEPT !.kl1_box = CHECKED_BOX]
         ELSE IF GE(t, 300) /\ LE(t, 400)
              THEN (IF first THEN [NoBoxes EXCEPT !.kl3_box = CHECKED_BOX]
                             ELSE [NoBoxes EXCEPT !.kl2_box = CHECKED_BOX])
         ELSE IF GT(t, 400)
              THEN (IF first THEN [NoBoxes EXCEPT !.kl3_box = CHECKED_BOX]
                             ELSE [NoBoxes EXCEPT !.kl4_box = CHECKED_BOX])
         ELSE NoBoxes

(***************************************************************************)
(* Idle values of the variables a specification does not use               *)
(***************************************************************************)
ConfigDefault == projectType = DATN /\ isFirstCheck = TRUE
ClassifyIdle  == tv = Undefined /\ category = "" /\ conclusions = NoBoxes
ReportIdle    == /\ templateName = <<>> /\ batchSize = 0 /\ index = 0
                 /\ effectiveProjectType = <<>> /\ baseName = <<>>
                 /\ reportsZip = <<>> /\ statsProjectType = <<>>
MainIdle      == rawData = <<>> /\ mainProcessed = <<>>
MergeIdle     == dfMain = <<>> /\ dfSupp = <<>> /\ enrichedRows = <<>>
UtilIdle      == /\ argData = <<>> /\ argKeywords = <<>> /\ resultRow = 0
                 /\ argHeaders = <<>> /\ foundColumn = Null /\ argStr = Null
                 /\ normalized = <<>> /\ normalizedTwice = <<>>
SheetIdle     == sheet = <<>> /\ reportData = <<>>
AppIdle       == /\ mainFile = Null /\ supplementaryFile = Null
                 /\ reportDataFile = Null
                 /\ wordTemplateFile = Null /\ mergedData = Null
                 /\ dashboardStats = Null /\ categorizedProjects = Null
                 /\ activeView = "files" /\ logs = <<>> /\ downloads = <<>>
                 /\ isProcessing = FALSE /\ dataForReport = Null
                 /\ closure = Null /\ awaited = Null
LaterIdle     == UtilIdle /\ SheetIdle /\ AppIdle

(***************************************************************************)
(* SpecClassify: one record's tv through the two classification sites,     *)
(* generateWordReports (part_000:809) and then the statistics loop of      *)
(* handleGenerateReports (part_000:183-187), under one configuration.      *)
(***************************************************************************)
MaxTenths == 450            \* largest tv tried, in tenths (45.0)
LowTenths == 20             \* tv values start at -LowTenths tenths (-2.0)

\* what row.tv can hold: absent, NaN (readDataFileForReporting stores
\* parseFloat's result unchecked, part_000:664) or a number
RowTVs == {Undefined, NaN} \cup {Num(n) : n \in (0 - LowTenths)..MaxTenths}

InitClassify ==
    /\ pc = "render"
    /\ tv \in RowTVs
    /\ projectType \in ProjectTypes
    /\ isFirstCheck \in BOOLEAN
    /\ category = ""
    /\ conclusions = NoBoxes
    /\ ReportIdle /\ MainIdle /\ MergeIdle /\ LaterIdle

\* part_000:809  getConclusionData(row.tv || 0, effectiveProjectType, isFirstCheck)
RenderConclusion ==
    /\ pc = "render"
    /\ conclusions' = getConclusionData(OrZero(tv), projectType, isFirstCheck)
    /\ pc' = "stats"
    /\ UNCHANGED <<tv, category, configVars, laterVars, reportVars, mainVars, mergeVars>>

\* part_000:184  getConclusionCategory(row.tv || 0, effectiveProjectType, isFirstCheck)
StatsClassify ==
    /\ pc = "stats"
    /\ category' = getConclusionCategory(OrZero(tv), projectType, isFirstCheck)
    /\ pc' = "done"
    /\ UNCHANGED <<tv, conclusions, configVars, laterVars, reportVars, mainVars, mergeVars>>

NextClassify == RenderConclusion \/ StatsClassify

SpecClassify == InitClassify /\ [][NextClassify]_vars

\* C1: the category of a record is given by the threshold table: below the
\* lower bound (25 for ĐATN, 30 for BCCĐ) withinLimit; from the lower to the
\* upper bound (35, 40), both inclusive, l1Edit on a first check and l2Process
\* otherwise; above the upper bound l1Edit on a first check and l2Exceeded
\* otherwise; a record without tv is classified as tv = 0, withinLimit.
C1_Lower(p) == IF p = DATN THEN 250 ELSE 300
C1_Upper(p) == IF p = DATN THEN 350 ELSE 400
C1_Table(n, p, f) ==
    CASE n < C1_Lower(p)                      -> "withinLimit"
      [] C1_Lower(p) <= n /\ n <= C1_Upper(p) -> IF f THEN "l1Edit" ELSE "l2Process"
      [] n > C1_Upper(p)                      -> IF f THEN "l1Edit" ELSE "l2Exceeded"
C1_ThresholdTable ==
    pc = "done" =>
        /\ tv.t = "number" => category = C1_Table(tv.n, projectType, isFirstCheck)
        /\ tv = Undefined => category = "withinLimit"
        \* the examples of the specification (24.9, 25, 35, 35.1, 40, 0)
        /\ (tv = Num(249) /\ projectType = DATN /\ isFirstCheck) => category = "withinLimit"
        /\ (tv = Num(250) /\ projectType = DATN /\ isFirstCheck) => category = "l1Edit"
        /\ (tv = Num(350) /\ projectType = DATN /\ ~isFirstCheck) => category = "l2Process"
        /\ (tv = Num(351) /\ projectType = DATN /\ ~isFirstCheck) => category = "l2Exceeded"
        /\ (tv = Num(400) /\ projectType = BCCD /\ ~isFirstCheck) => category = "l2Process"
        /\ (tv = Num(0) /\ projectType = DATN /\ isFirstCheck) => category = "withinLimit"

C1_Witness ==
    /\ pc = "done" /\ tv = Num(350) /\ projectType = DATN /\ ~isFirstCheck
    /\ category = "l2Process"

\* C2: the renderer's checkboxes and the statistics' category agree: exactly
\* one of kl1_box..kl4_box is checked, and it is the box of the category
\* (kl1 withinLimit, kl2 l2Process, kl3 l1Edit, kl4 l2Exceeded).
C2_BoxOf(c) ==
    CASE c = "withinLimit" -> "kl1_box"
      [] c = "l2Process"   -> "kl2_box"
      [] c = "l1Edit"      -> "kl3_box"
      [] c = "l2Exceeded"  -> "kl4_box"
C2_CategoryMatchesBox ==
    pc = "done" =>
        /\ Cardinality({b \in DOMAIN conclusions : conclusions[b] = CHECKED_BOX}) = 1
        /\ conclusions[C2_BoxOf(category)] = CHECKED_BOX

C2_Witness ==
    /\ pc = "done" /\ tv = Num(401) /\ projectType = BCCD /\ ~isFirstCheck
    /\ category = "l2Exceeded" /\ conclusions.kl4_box = CHECKED_BOX

(***************************************************************************)
(* Report Renderer naming (generateWordReports) and the statistics' own    *)
(* resolution of the effective project type (handleGenerateReports).       *)
(***************************************************************************)
S_datn == <<"d","a","t","n">>
S_kltn == <<"k","l","t","n">>
S_bccd == <<"b","c","c","d">>
S_KQ   == <<"K","Q","_">>                     \* 'KQ_'
S_KQ_KLTN == <<"K","Q","_","K","L","T","N">>
S_KQ_DATN == <<"K","Q","_","U+0110","A","T","N">>       \* 'KQ_ĐATN'
S_KQ_BCCD == <<"K","Q","_","B","C","C","U+0110">>       \* 'KQ_BCCĐ'
S_docx == <<".","d","o","c","x">>            \* '.docx'

\* part_000:759-769, generateWordReports
RendererEffectiveType(name, projectTypeFromUI) ==
    LET normalizedFileName == normalizeString(Str(name))
    IN  IF Includes(normalizedFileName, S_datn) \/ Includes(normalizedFileName, S_kltn)
        THEN DATN
        ELSE IF Includes(normalizedFileName, S_bccd)
             THEN BCCD
             ELSE projectTypeFromUI

\* part_000:771-782, generateWordReports
BaseName(name, effective) ==
    LET normalizedFileName == normalizeString(Str(name))
    IN  IF Includes(normalizedFileName, S_kltn) THEN S_KQ_KLTN
        ELSE IF Includes(normalizedFileName, S_datn) THEN S_KQ_DATN
        ELSE IF Includes(normalizedFileName, S_bccd) THEN S_KQ_BCCD
        ELSE S_KQ \o effective

FileName_zeroBased(base, i) ==
    base \o <<"_">> \o ToDecimal(i) \o S_docx

\* part_000:842  `${baseName}_${index + 1}.docx`
FileName(base, i) ==
    base \o <<"_">> \o ToDecimal(i + 1) \o S_docx

StatsEffectiveType_noKltn(name, pType) ==
    LET normalizedFileName == normalizeString(Str(name))
    IN  IF Includes(normalizedFileName, S_datn)
        THEN DATN
        ELSE IF Includes(normalizedFileName, S_bccd)
             THEN BCCD
             ELSE pType

\* part_000:157-165, handleGenerateReports
StatsEffectiveType(name, pType) ==
    LET normalizedFileName == normalizeString(Str(name))
    IN  IF Includes(normalizedFileName, S_datn) \/ Includes(normalizedFileName, S_kltn)
        THEN DATN
        ELSE IF Includes(normalizedFileName, S_bccd)
             THEN BCCD
             ELSE pType

(***************************************************************************)
(* SpecReport: generateWordReports on a batch of batchSize records with a  *)
(* template of a given name, then the statistics step of                   *)
(* handleGenerateReports.  A render may throw (part_000:823-835), which    *)
(* rejects the whole call.                                                 *)
(***************************************************************************)
MaxBatch     == 3           \* largest number of records in a batch
MaxFragments == 2           \* template names are built of up to this many fragments

NameFragments ==
    { <<"M","a","u","_">>,            \* 'Mau_'
      <<"D","A","T","N">>,            \* 'DATN'
      <<"U+0110","A","T","N">>,       \* 'ĐATN'
      <<"k","l","t","n">>,            \* 'kltn'
      <<"B","C","C","U+0110">>,       \* 'BCCĐ'
      <<"b","c","c","d">>,            \* 'bccd'
      <<"D","A">>,                \* 'DA' and 'tn': 'datn' across two fragments
      <<"t","n">>,
      <<"K",".","L","-","T">>,        \* 'K.L-T', completed by 'N ' below
      <<"N"," ">>,
      <<"m","U+1EAB","u">>,    \* 'mẫu'
      <<".","d","o","c","x">> }   \* '.docx'

RECURSIVE NamesOf(_)
\* the names made of exactly k fragments
NamesOf(k) ==
    IF k = 0 THEN {<<>>}
    ELSE {n \o f : n \in NamesOf(k - 1), f \in NameFragments}

N_Mau_DATN_v2 == <<"M","a","u","_","D","A","T","N","_","v","2",".","d","o","c","x">>
N_template == <<"t","e","m","p","l","a","t","e",".","d","o","c","x">>

TemplateNames ==
    (UNION {NamesOf(k) : k \in 1..MaxFragments}) \cup {N_Mau_DATN_v2, N_template}

InitReport ==
    /\ pc = "resolve"
    /\ templateName \in TemplateNames
    /\ projectType \in ProjectTypes
    /\ isFirstCheck = TRUE
    /\ batchSize \in 1..MaxBatch
    /\ index = 0
    /\ effectiveProjectType = <<>>
    /\ baseName = <<>>
    /\ reportsZip = <<>>
    /\ statsProjectType = <<>>
    /\ ClassifyIdle /\ MainIdle /\ MergeIdle /\ LaterIdle

\* part_000:752-782
ResolveNames ==
    /\ pc = "resolve"
    /\ effectiveProjectType' = RendererEffectiveType(templateName, projectType)
    /\ baseName' = BaseName(templateName, effectiveProjectType')
    /\ pc' = "loop"
    /\ UNCHANGED <<templateName, batchSize, index, reportsZip, statsProjectType,
                   classifyVars, configVars, laterVars, mainVars, mergeVars>>

\* part_000:785-844, one iteration whose doc.render() succeeds
RenderRecord ==
    /\ pc = "loop"
    /\ index < batchSize
    /\ reportsZip' = Append(reportsZip, FileName(baseName, index))
    /\ index' = index + 1
    /\ UNCHANGED <<pc, templateName, batchSize, effectiveProjectType, baseName,
                   statsProjectType, classifyVars, configVars, laterVars, mainVars, mergeVars>>

\* part_000:823-835, one iteration whose doc.render() throws: the call
\* rejects, reportsZip is dropped, handleGenerateReports goes to its catch
RenderFails ==
    /\ pc = "loop"
    /\ index < batchSize
    /\ reportsZip' = <<>>
    /\ pc' = "failed"
    /\ UNCHANGED <<templateName, batchSize, index, effectiveProjectType, baseName,
                   statsProjectType, classifyVars, configVars, laterVars, mainVars, mergeVars>>

\* part_000:846 and 149-153: the package is returned and saved
ReturnZip ==
    /\ pc = "loop"
    /\ index = batchSize
    /\ pc' = "stats"
    /\ UNCHANGED <<reportVars, classifyVars, configVars, laterVars, mainVars, mergeVars>>

\* part_000:155-165
StatsResolveType ==
    /\ pc = "stats"
    /\ statsProjectType' = StatsEffectiveType(templateName, projectType)
    /\ pc' = "done"
    /\ UNCHANGED <<templateName, batchSize, index, effectiveProjectType, baseName,
                   reportsZip, classifyVars, configVars, laterVars, mainVars, mergeVars>>

NextReport == ResolveNames \/ RenderRecord \/ RenderFails \/ ReturnZip \/ StatsResolveType

SpecReport == InitReport /\ [][NextReport]_vars

\* C3: the effective project type is resolved from the template name before
\* the configured type, and the renderer and the statistics resolve it alike:
\* ĐATN if the normalized name contains "datn" or "kltn", else BCCĐ if it
\* contains "bccd", else the configured projectType.
C3_Has(kw) == Includes(normalizeString(Str(templateName)), kw)
C3_Expected ==
    IF C3_Has(S_datn) \/ C3_Has(S_kltn) THEN DATN
    ELSE IF C3_Has(S_bccd) THEN BCCD
    ELSE projectType
C3_SameEffectiveType ==
    /\ pc \notin {"resolve"} => effectiveProjectType = C3_Expected
    /\ pc = "done" =>
        /\ statsProjectType = C3_Expected
        /\ statsProjectType = effectiveProjectType
        /\ templateName = N_Mau_DATN_v2 => statsProjectType = DATN
        /\ templateName = N_template => statsProjectType = projectType

C3_Witness ==
    /\ pc = "done" /\ templateName = S_kltn \o S_docx /\ projectType = BCCD
    /\ effectiveProjectType = DATN /\ statsProjectType = DATN

\* C4: the i-th document of a batch (0-based i) is named {baseName}_{i+1}.docx
\* with baseName KQ_KLTN, KQ_ĐATN, KQ_BCCĐ by the keyword of the template name
\* (kltn before datn before bccd), else KQ_{effective type}; a name with "datn"
\* and without "kltn" gives type ĐATN and KQ_ĐATN whatever is configured; the
\* names of one batch are distinct.
C4_ExpectedBase ==
    IF C3_Has(S_kltn) THEN S_KQ_KLTN
    ELSE IF C3_Has(S_datn) THEN S_KQ_DATN
    ELSE IF C3_Has(S_bccd) THEN S_KQ_BCCD
    ELSE S_KQ \o C3_Expected
C4_FileNames ==
    /\ \A i \in 1..Len(reportsZip) :
           reportsZip[i] = C4_ExpectedBase \o <<"_">> \o ToDecimal(i) \o S_docx
    /\ \A i, j \in 1..Len(reportsZip) : i # j => reportsZip[i] # reportsZip[j]
    /\ pc \in {"loop", "stats", "done"} => Len(reportsZip) = index
    /\ (pc # "resolve" /\ C3_Has(S_datn) /\ ~C3_Has(S_kltn)) =>
           effectiveProjectType = DATN /\ baseName = S_KQ_DATN
    /\ (templateName = N_Mau_DATN_v2 /\ Len(reportsZip) >= 1) =>
           reportsZip[1] = <<"K","Q","_","U+0110","A","T","N","_","1",".","d","o","c","x">>   \* 'KQ_ĐATN_1.docx'

C4_Witness ==
    /\ templateName = N_Mau_DATN_v2 /\ projectType = BCCD /\ pc = "done"
    /\ Len(reportsZip) = 2
    /\ reportsZip[2] = <<"K","Q","_","U+0110","A","T","N","_","2",".","d","o","c","x">>       \* 'KQ_ĐATN_2.docx'

(***************************************************************************)
(* Header Locator and Column Resolver (detectHeaderRow, findColumn)        *)
(***************************************************************************)
K_TenDeTai      == <<"T","U+00EA","n"," ","U+0111","U+1EC1"," ","t","U+00E0","i">>   \* 'Tên đề tài'
K_HoTenHV       == <<"H","U+1ECD"," ","t","U+00EA","n"," ","H","V">>                 \* 'Họ tên HV'
K_NguoiHuongDan == <<"N","g","U+01B0","U+1EDD","i"," ","h","U+01B0","U+1EDB","n","g"," ","d","U+1EAB","n">>   \* 'Người hướng dẫn'
K_DeTai         == <<"D","e"," ","t","a","i">>                                     \* 'De tai'
K_TenHocVien    == <<"T","e","n"," ","h","o","c"," ","v","i","e","n">>             \* 'Ten hoc vien'
K_TV            == <<"T","V">>                                                     \* 'TV'
K_TiLe          == <<"T","U+1EC9"," ","l","U+1EC7">>                           \* 'Tỉ lệ'

Min(a, b) == IF a < b THEN a ELSE b

\* part_000:409  the keywords, normalized
NormalizedKeywords(keywords) ==
    {normalizeString(Str(keywords[k])) : k \in DOMAIN keywords}

\* part_000:406-412: the number of cells of a row whose normalized text
\* contains some normalized keyword
MatchCount(row, normKeys) ==
    Cardinality({c \in DOMAIN row :
        LET normalizedCell == normalizeString(row[c])
        IN  \E kw \in normKeys : Includes(normalizedCell, kw)})

RECURSIVE detectHeaderRowFrom_noLimit(_, _, _)
detectHeaderRowFrom_noLimit(data, normKeys, i) ==
    IF i >= Len(data) THEN 0
    ELSE IF MatchCount(data[i + 1], normKeys) >= 2 THEN i
    ELSE detectHeaderRowFrom_noLimit(data, normKeys, i + 1)

RECURSIVE detectHeaderRowFrom(_, _, _)
\* part_000:404-416, the loop from row i on
detectHeaderRowFrom(data, normKeys, i) ==
    IF i >= Min(10, Len(data)) THEN 0
    ELSE IF MatchCount(data[i + 1], normKeys) >= 2 THEN i
    ELSE detectHeaderRowFrom(data, normKeys, i + 1)

\* part_000:403-418 (0-based result)
detectHeaderRow(data, keywords) ==
    detectHeaderRowFrom(data, NormalizedKeywords(keywords), 0)

\* part_000:447 and 506  String(h || '').trim() of a header cell (a string or null)
HeaderText(h) == IF Truthy(h) THEN Trim(h.s) ELSE <<>>

\* the leftmost header that holds any of the keywords
findColumnFrom_leftmost(headers, keywords, k) ==
    LET normKeys == {normalizeString(Str(keywords[j])) : j \in k..Len(keywords)}
        found    == {i \in DOMAIN headers :
                        \E nk \in normKeys : Includes(normalizeString(Str(headers[i])), nk)}
    IN  IF found # {}
        THEN Str(headers[CHOOSE i \in found : \A j \in found : i <= j])
        ELSE Null

RECURSIVE findColumnFrom(_, _, _)
\* part_000:429-436, the loop over the keywords from position k on
findColumnFrom(headers, keywords, k) ==
    IF k > Len(keywords) THEN Null
    ELSE LET normKey == normalizeString(Str(keywords[k]))
             found   == {i \in DOMAIN headers :
                            Includes(normalizeString(Str(headers[i])), normKey)}
         IN  IF found # {}
             THEN Str(headers[CHOOSE i \in found : \A j \in found : i <= j])
             ELSE findColumnFrom(headers, keywords, k + 1)

\* part_000:427-437: the original text of the matching header, or null
findColumn(headers, keywords) == findColumnFrom(headers, keywords, 1)

(***************************************************************************)
(* Main-Roster Aggregator (processMainData).  The cells of the main grid   *)
(* are strings or null, as the parameter type (string|null|undefined)[][]  *)
(* declares.                                                               *)
(***************************************************************************)
Max(S) == CHOOSE x \in S : \A y \in S : y <= x

\* part_000:461-462  obj[h] = row[i] for every header, in column order: a
\* header text that occurs twice keeps the cell of its last column
RowObject(headers, row) ==
    [h \in Range(headers) |->
        At(row, Max({i \in DOMAIN headers : headers[i] = h}) - 1)]

RECURSIVE FillTopic(_, _, _, _)
\* part_000:459-469  the map callback over dataRows, lastTopic carried along
FillTopic(rows, headers, topicCol, lastTopic) ==
    IF rows = <<>> THEN <<>>
    ELSE LET obj == RowObject(headers, Head(rows))
         IN  IF Truthy(obj[topicCol])
             THEN <<obj>> \o FillTopic(Tail(rows), headers, topicCol, obj[topicCol])
             ELSE <<[obj EXCEPT ![topicCol] = lastTopic]>>
                  \o FillTopic(Tail(rows), headers, topicCol, lastTopic)

\* The property names every object literal {} inherits from Object.prototype:
\* acc[name] is truthy for them before any own property is set.
ObjectPrototypeKeys ==
    { <<"c","o","n","s","t","r","u","c","t","o","r">>,
      <<"_","_","p","r","o","t","o","_","_">>,
      <<"t","o","S","t","r","i","n","g">>,
      <<"v","a","l","u","e","O","f">>,
      <<"h","a","s","O","w","n","P","r","o","p","e","r","t","y">>,
      <<"i","s","P","r","o","t","o","t","y","p","e","O","f">>,
      <<"p","r","o","p","e","r","t","y","I","s","E","n","u","m","e","r","a","b","l","e">>,
      <<"t","o","L","o","c","a","l","e","S","t","r","i","n","g">> }

\* ToPropertyKey of a topic value (a string here)
PropertyKey(v) == v.s

EmptyGroups == [keys |-> <<>>, groups |-> <<>>, threw |-> FALSE]

RECURSIVE GroupByTopic(_, _, _)
\* part_000:473-480  the reduce into acc: keys holds the own property names
\* in creation order, groups the array of each; threw records the TypeError
\* of acc[topic].push when acc[topic] is an inherited member, not an array
GroupByTopic(rows, topicCol, acc) ==
    IF rows = <<>> \/ acc.threw THEN acc
    ELSE LET row == Head(rows)
             key == PropertyKey(row[topicCol])
         IN  IF key \in Range(acc.keys)
             THEN GroupByTopic(Tail(rows), topicCol,
                      [acc EXCEPT !.groups = [k \in Range(acc.keys) |->
                          IF k = key THEN Append(acc.groups[k], row) ELSE acc.groups[k]]])
             ELSE IF key \in ObjectPrototypeKeys
             THEN [acc EXCEPT !.threw = TRUE]
             ELSE GroupByTopic(Tail(rows), topicCol,
                      [acc EXCEPT !.keys = Append(acc.keys, key),
                                  !.groups = [k \in Range(acc.keys) \cup {key} |->
                          IF k = key THEN <<row>> ELSE acc.groups[k]]])

RECURSIVE DigitsValue(_)
\* the number written by a sequence of decimal digits
DigitsValue(d) ==
    IF d = <<>> THEN 0 ELSE DigitsValue(SubSeq(d, 1, Len(d) - 1)) * 10 + DigitVal(d[Len(d)])

\* a < b for two digit sequences of the same length
DigitsLess(a, b) ==
    \E i \in DOMAIN a :
        /\ DigitVal(a[i]) < DigitVal(b[i])
        /\ \A j \in 1..(i - 1) : a[j] = b[j]

\* a < b for two canonical decimal numerals
NumeralLess(a, b) ==
    Len(a) < Len(b) \/ (Len(a) = Len(b) /\ DigitsLess(a, b))

\* 2^32 - 1, the first integer that is not an array index
S_4294967295 == <<"4","2","9","4","9","6","7","2","9","5">>

\* An "array index" property name: the canonical decimal numeral of an
\* integer from 0 to 2^32 - 2
IsArrayIndex(k) ==
    /\ k # <<>>
    /\ \A i \in DOMAIN k : IsDigit(k[i])
    /\ (Len(k) = 1 \/ k[1] # "0")
    /\ NumeralLess(k, S_4294967295)

\* OrdinaryOwnPropertyKeys, the order of Object.values (part_000:483): array
\* indices in ascending numeric order first, then the other names in creation
\* order
OwnKeysOrder(keys) ==
    SortSeq(SelectSeq(keys, IsArrayIndex),
            NumeralLess)
    \o SelectSeq(keys, LAMBDA k : ~IsArrayIndex(k))

RECURSIVE Join(_, _)
\* parts.join(sep)
Join(parts, sep) ==
    IF parts = <<>> THEN <<>>
    ELSE IF Len(parts) = 1 THEN parts[1]
    ELSE parts[1] \o sep \o Join(Tail(parts), sep)

\* part_000:485  String(s[nameCol] || '').trim() of one row
TrimmedName(row, nameCol) ==
    IF Truthy(row[nameCol]) THEN Trim(row[nameCol].s) ELSE <<>>

\* part_000:484-492  one aggregated topic; the keys 'Tên đề tài', 'Họ tên HV',
\* 'Số học viên', 'Người hướng dẫn' are written tendetai, hotenhv, sohocvien,
\* nguoihuongdan; sohocvien is a plain count
Aggregate(group, topicCol, nameCol, guideCol) ==
    LET first == group[1]
        names == [i \in DOMAIN group |-> TrimmedName(group[i], nameCol)]
    IN  [tendetai      |-> first[topicCol],
         hotenhv       |-> Str(Join(SelectSeq(names, LAMBDA n : n # <<>>), <<",", " ">>)),
         sohocvien     |-> Len(group),
         nguoihuongdan |-> IF Truthy(guideCol) /\ Truthy(first[guideCol.s])
                           THEN first[guideCol.s] ELSE Str(<<>>)]

Threw(msg) == [error |-> msg, rows |-> <<>>]
Returned(rows) == [error |-> "", rows |-> rows]

processMainData_filterFirst(data) ==
    LET headerRowIndex == detectHeaderRow(data, <<K_TenDeTai, K_HoTenHV, K_NguoiHuongDan>>)
        headerRow == data[headerRowIndex + 1]
        headers   == [i \in DOMAIN headerRow |-> HeaderText(headerRow[i])]
        dataRows  == SubSeq(data, headerRowIndex + 2, Len(data))
        topicCol  == findColumn(headers, <<K_TenDeTai, K_DeTai>>)
        nameCol   == findColumn(headers, <<K_HoTenHV, K_TenHocVien>>)
        guideCol  == findColumn(headers, <<K_NguoiHuongDan>>)
    IN  IF ~Truthy(topicCol) \/ ~Truthy(nameCol)
        THEN Threw("MissingRequiredColumn")
        ELSE LET kept       == SelectSeq(dataRows, LAMBDA r :
                                   Truthy(RowObject(headers, r)[nameCol.s]))
                 filledData == FillTopic(kept, headers, topicCol.s, Str(<<>>))
                 grouped    == GroupByTopic(filledData, topicCol.s, EmptyGroups)
                 order      == OwnKeysOrder(grouped.keys)
             IN  IF grouped.threw
                 THEN Threw("TypeError")
                 ELSE Returned([i \in DOMAIN order |->
                          Aggregate(grouped.groups[order[i]], topicCol.s, nameCol.s, guideCol)])

\* part_000:445-494
processMainData(data) ==
    LET headerRowIndex == detectHeaderRow(data, <<K_TenDeTai, K_HoTenHV, K_NguoiHuongDan>>)
        headerRow == data[headerRowIndex + 1]
        headers   == [i \in DOMAIN headerRow |-> HeaderText(headerRow[i])]
        dataRows  == SubSeq(data, headerRowIndex + 2, Len(data))
        topicCol  == findColumn(headers, <<K_TenDeTai, K_DeTai>>)
        nameCol   == findColumn(headers, <<K_HoTenHV, K_TenHocVien>>)
        guideCol  == findColumn(headers, <<K_NguoiHuongDan>>)
    IN  IF ~Truthy(topicCol) \/ ~Truthy(nameCol)
        THEN Threw("MissingRequiredColumn")
        ELSE LET filled     == FillTopic(dataRows, headers, topicCol.s, Str(<<>>))
                 filledData == SelectSeq(filled, LAMBDA o : Truthy(o[nameCol.s]))
                 grouped    == GroupByTopic(filledData, topicCol.s, EmptyGroups)
                 order      == OwnKeysOrder(grouped.keys)
             IN  IF grouped.threw
                 THEN Threw("TypeError")
                 ELSE Returned([i \in DOMAIN order |->
                          Aggregate(grouped.groups[order[i]], topicCol.s, nameCol.s, guideCol)])

(***************************************************************************)
(* SpecMain: processMainData applied to a main grid as readFileAsArray     *)
(* returns it (no row entirely blank, part_000:383).                       *)
(***************************************************************************)
MaxMainRows == 3            \* largest number of data rows of a main grid

T_T1 == <<"T","1">>
T_T2 == <<"T","2">>
T_1  == <<"1">>
T_constructor == <<"c","o","n","s","t","r","u","c","t","o","r">>
T_space == <<" ">>
T_A  == <<"A">>
T_Bsp == <<"B", " ">>
T_B  == <<"B">>
T_C  == <<"C">>
T_G1 == <<"G","1">>

\* part_000:383  the rows readFileAsArray keeps
NonBlankRow(row) ==
    \E c \in DOMAIN row : row[c] # Null /\ (row[c].t = "string" => Trim(row[c].s) # <<>>)

RECURSIVE SeqsUpTo(_, _)
\* the sequences over S of length 0..n
SeqsUpTo(S, n) ==
    IF n = 0 THEN {<<>>}
    ELSE LET shorter == SeqsUpTo(S, n - 1)
         IN  shorter \cup {Append(q, x) : q \in {r \in shorter : Len(r) = n - 1}, x \in S}

\* Layout A: the header is the first row; columns topic, student name
HeaderA == <<Str(K_TenDeTai), Str(K_HoTenHV)>>
RowsA ==
    {r \in {<<t, n>> : t \in {Null, Str(T_T1), Str(T_1),
                              Str(T_constructor), Str(T_space)},
                       n \in {Null, Str(T_A), Str(T_Bsp), Str(T_space)}} :
        NonBlankRow(r)}

\* Layout B: a title row, then the header; columns student name, topic, advisor
TitleB  == <<Str(<<"D","a","n","h"," ","s","a","c","h">>), Null, Null>>   \* 'Danh sach'
HeaderB == <<Str(K_HoTenHV), Str(K_TenDeTai), Str(K_NguoiHuongDan)>>
RowsB ==
    {r \in {<<n, t, g>> : n \in {Null, Str(T_A)},
                          t \in {Null, Str(T_T1), Str(T_T2)},
                          g \in {Null, Str(T_G1)}} :
        NonBlankRow(r)}

\* the example of the specification: rows (T1,A), (blank,B), (T2,C)
GridExample ==
    <<HeaderA, <<Str(T_T1), Str(T_A)>>, <<Null, Str(T_B)>>, <<Str(T_T2), Str(T_C)>>>>

\* a grid without a topic column
GridNoTopic == <<<<Str(<<"S","T","T">>), Str(K_HoTenHV)>>, <<Str(T_1), Str(T_A)>>>>

MainGrids ==
    {<<HeaderA>> \o rows : rows \in SeqsUpTo(RowsA, MaxMainRows)}
    \cup {<<TitleB, HeaderB>> \o rows : rows \in SeqsUpTo(RowsB, MaxMainRows)}
    \cup {GridExample, GridNoTopic}

NotRun == [error |-> "not run", rows |-> <<>>]

InitMain ==
    /\ pc = "call"
    /\ rawData \in MainGrids
    /\ mainProcessed = NotRun
    /\ ConfigDefault /\ ClassifyIdle /\ ReportIdle /\ MergeIdle /\ LaterIdle

\* part_000:592  const mainProcessed = processMainData(mainRawData)
ProcessMain ==
    /\ pc = "call"
    /\ mainProcessed' = processMainData(rawData)
    /\ pc' = "done"
    /\ UNCHANGED <<rawData, classifyVars, configVars, laterVars, reportVars, mergeVars>>

NextMain == ProcessMain

SpecMain == InitMain /\ [][NextMain]_vars

\* The data rows of rawData and their topic and student-name cells, read off
\* the layout of the grid (layout A: topic, name; layout B: name, topic).
C8_IsA == rawData[1] = HeaderA
C8_DataRows == IF C8_IsA THEN Tail(rawData) ELSE SubSeq(rawData, 3, Len(rawData))
C8_Topic(i) == IF C8_IsA THEN C8_DataRows[i][1] ELSE C8_DataRows[i][2]
C8_Name(i)  == IF C8_IsA THEN C8_DataRows[i][2] ELSE C8_DataRows[i][1]
\* a blank cell: no value, or the empty text
C8_Blank(c) == c \in {Null, Undefined, Str(<<>>)}
\* the rows up to i that carry a topic
C8_Seen(i) == {j \in 1..i : ~C8_Blank(C8_Topic(j))}
\* the topic of row i after forward fill ('' before the first topic)
C8_Filled(i) == IF C8_Seen(i) = {} THEN Str(<<>>) ELSE C8_Topic(Max(C8_Seen(i)))
\* the rows that keep a student name
C8_Retained == {i \in DOMAIN C8_DataRows : ~C8_Blank(C8_Name(i))}

\* C8: a row with a blank topic cell belongs to the last non-blank topic above
\* it, the fill being done before the rows without a student name are dropped;
\* the remaining rows are grouped by exact title: every retained row is counted
\* in the record of its filled topic, and each title has one record.  Rows
\* (T1,A), (blank,B), (T2,C) give [{T1, "A, B", 2}, {T2, "C", 1}].
C8_ForwardFill ==
    (pc = "done" /\ mainProcessed.error = "") =>
        LET out == mainProcessed.rows
        IN  /\ \A i \in C8_Retained :
                   C8_Seen(i) # {} => \E k \in DOMAIN out : out[k].tendetai = C8_Filled(i)
            /\ \A k \in DOMAIN out :
                   out[k].tendetai # Str(<<>>) =>
                       out[k].sohocvien = Cardinality({i \in C8_Retained :
                           C8_Seen(i) # {} /\ C8_Filled(i) = out[k].tendetai})
            /\ \A k, l \in DOMAIN out : k # l => out[k].tendetai # out[l].tendetai
            /\ rawData = GridExample =>
                   out = << [tendetai |-> Str(T_T1), hotenhv |-> Str(<<"A", ",", " ", "B">>),
                             sohocvien |-> 2, nguoihuongdan |-> Str(<<>>)],
                            [tendetai |-> Str(T_T2), hotenhv |-> Str(T_C),
                             sohocvien |-> 1, nguoihuongdan |-> Str(<<>>)] >>

\* the topic sits on a row without a student name and fills the row below
C8_Witness ==
    /\ pc = "done"
    /\ rawData = <<TitleB, HeaderB, <<Null, Str(T_T1), Null>>, <<Str(T_A), Null, Str(T_G1)>>>>
    /\ mainProcessed.error = ""
    /\ Len(mainProcessed.rows) = 1
    /\ mainProcessed.rows[1].tendetai = Str(T_T1)
    /\ mainProcessed.rows[1].sohocvien = 1

RECURSIVE C9_FirstOccurrences(_, _)
\* the filled topics of the retained rows from row i on, each once, in the
\* order of its first retained row
C9_FirstOccurrences(i, seen) ==
    IF i > Len(C8_DataRows) THEN <<>>
    ELSE IF i \in C8_Retained /\ C8_Filled(i) \notin seen
         THEN <<C8_Filled(i)>> \o C9_FirstOccurrences(i + 1, seen \cup {C8_Filled(i)})
         ELSE C9_FirstOccurrences(i + 1, seen)

\* C9: the list returned by processMainData has one topic per distinct filled
\* title, in the order of the first retained row of each, whatever the text
\* of the titles (stated for the grids whose retained rows all have a topic
\* at or above them).
C9_FirstOccurrenceOrder ==
    (pc = "done" /\ mainProcessed.error = "" /\ \A i \in C8_Retained : C8_Seen(i) # {}) =>
        [k \in DOMAIN mainProcessed.rows |-> mainProcessed.rows[k].tendetai]
            = C9_FirstOccurrences(1, {})

\* the number of names in a ", "-joined list (no name of the grids holds ", ")
C10_NamesJoined(s) ==
    IF s = <<>> THEN 0
    ELSE 1 + Cardinality({i \in 1..(Len(s) - 1) : s[i] = "," /\ s[i + 1] = " "})

\* C10: for every emitted topic, studentCount is the number of contributing
\* rows with a non-empty student name, and also the number of names joined in
\* studentNames.
C10_CountIsNamesJoined ==
    (pc = "done" /\ mainProcessed.error = "") =>
        \A k \in DOMAIN mainProcessed.rows :
            LET r == mainProcessed.rows[k]
            IN  /\ r.sohocvien = Cardinality({i \in C8_Retained : C8_Filled(i) = r.tendetai})
                /\ r.sohocvien = C10_NamesJoined(r.hotenhv.s)

(***************************************************************************)
(* Ratio Merger (mergeMainAndRatios).  The cells of the supplementary grid *)
(* are strings, numbers or null.                                           *)
(***************************************************************************)
RECURSIVE LeadingDigits(_)
\* the longest prefix of s made of decimal digits
LeadingDigits(s) ==
    IF s # <<>> /\ IsDigit(Head(s)) THEN <<Head(s)>> \o LeadingDigits(Tail(s)) ELSE <<>>

\* parseFloat(s), in tenths: leading white space, an optional sign, digits,
\* an optional '.' and digits; NaN when no digit is found.  The text after
\* the numeral is ignored.  (The cells of the model carry at most one decimal
\* and neither an exponent nor 'Infinity'.)
ParseFloat(s) ==
    LET t        == TrimStart(s)
        signed   == t # <<>> /\ Head(t) \in {"+", "-"}
        unsigned == IF signed THEN Tail(t) ELSE t
        intPart  == LeadingDigits(unsigned)
        rest     == SubSeq(unsigned, Len(intPart) + 1, Len(unsigned))
        fracPart == IF rest # <<>> /\ Head(rest) = "." THEN LeadingDigits(Tail(rest)) ELSE <<>>
        tenths   == DigitsValue(intPart) * 10
                    + (IF fracPart = <<>> THEN 0 ELSE DigitVal(fracPart[1]))
    IN  IF intPart = <<>> /\ fracPart = <<>> THEN NaN
        ELSE IF signed /\ Head(t) = "-" THEN Num(0 - tenths) ELSE Num(tenths)

\* parseInt(s, 10) of a digit sequence (a plain integer)
ParseInt(s) == DigitsValue(LeadingDigits(s))

\* part_000:542 and 558-560  the number of a cell: parseFloat of a string
\* with its first comma turned into a dot, a number as it is, else undefined
CellNumber(cell) ==
    IF cell.t = "string" THEN ParseFloat(ReplaceFirstComma(cell.s))
    ELSE IF TypeOf(cell) = "number" THEN cell
    ELSE Undefined

\* String(cell) is empty after trim (part_000:557); String of a number or of
\* null is never empty
BlankText(cell) == cell.t = "string" /\ Trim(cell.s) = <<>>

S_tile == <<"t","i","l","e">>

\* part_000:516  norm.match(/^(tile|ti le)\d+$/): a normalized text holds no
\* space, so only the alternative 'tile' can match
IsRatioHeader(norm) ==
    /\ Len(norm) > Len(S_tile)
    /\ SubSeq(norm, 1, Len(S_tile)) = S_tile
    /\ \A i \in (Len(S_tile) + 1)..Len(norm) : IsDigit(norm[i])

\* part_000:518-519  parseInt(norm.replace(/^(tile|ti le)/, ''), 10)
RatioNumber(norm) == ParseInt(SubSeq(norm, Len(S_tile) + 1, Len(norm)))

RECURSIVE InsertSorted(_, _)
\* x put into the sorted sequence q after the elements not greater than it
InsertSorted(q, x) ==
    IF q = <<>> THEN <<x>>
    ELSE IF x.num < Head(q).num THEN <<x>> \o q
    ELSE <<Head(q)>> \o InsertSorted(Tail(q), x)

RECURSIVE StableSort(_)
\* Array.prototype.sort with the comparator numA - numB (stable)
StableSort(q) ==
    IF q = <<>> THEN <<>>
    ELSE InsertSorted(StableSort(SubSeq(q, 1, Len(q) - 1)), q[Len(q)])

projectRatioColumns_headerOrder(headers) ==
    LET cols == [i \in DOMAIN headers |->
                    [index |-> i - 1, norm |-> normalizeString(Str(headers[i]))]]
        kept == SelectSeq(cols, LAMBDA c : IsRatioHeader(c.norm))
    IN  [i \in DOMAIN kept |-> kept[i].index]

\* part_000:514-521  the 0-based indices of the ratio columns, sorted by
\* their trailing number
projectRatioColumns(headers) ==
    LET cols   == [i \in DOMAIN headers |->
                      [index |-> i - 1, norm |-> normalizeString(Str(headers[i]))]]
        kept   == SelectSeq(cols, LAMBDA c : IsRatioHeader(c.norm))
        sorted == StableSort([i \in DOMAIN kept |->
                      [index |-> kept[i].index, num |-> RatioNumber(kept[i].norm)]])
    IN  [i \in DOMAIN sorted |-> sorted[i].index]

\* headers.indexOf(h), 0-based, -1 when absent
IndexOf(headers, h) ==
    IF \E i \in DOMAIN headers : headers[i] = h
    THEN (CHOOSE i \in DOMAIN headers : headers[i] = h /\ \A j \in 1..(i - 1) : headers[j] # h) - 1
    ELSE -1

baseRow_noAdvisor(mainRow) ==
    [hotenhv       |-> mainRow.hotenhv,
     tendetai      |-> mainRow.tendetai,
     sohocvien     |-> mainRow.sohocvien,
     nguoihuongdan |-> Str(<<>>)]

\* part_000:529-534  the fields copied from the aggregated topic
baseRow(mainRow) ==
    [hotenhv       |-> mainRow.hotenhv,
     tendetai      |-> mainRow.tendetai,
     sohocvien     |-> mainRow.sohocvien,
     nguoihuongdan |-> mainRow.nguoihuongdan]

tvOfProject_zeroFill(dataRows, tvColIndex, projectIndex) ==
    IF projectIndex < Len(dataRows) /\ tvColIndex # -1
    THEN LET tvVal == At(dataRows[projectIndex + 1], tvColIndex)
         IN  IF tvVal.t \notin {"null", "undefined"}
             THEN LET numVal == CellNumber(tvVal)
                  IN  IF ~IsNaN(numVal) THEN numVal ELSE Num(0)
             ELSE Undefined
    ELSE Undefined

\* part_000:536-547  newRow.tv of the project at projectIndex (0-based);
\* Undefined stands for "not assigned"
tvOfProject(dataRows, tvColIndex, projectIndex) ==
    IF projectIndex < Len(dataRows) /\ tvColIndex # -1
    THEN LET tvVal == At(dataRows[projectIndex + 1], tvColIndex)
         IN  IF tvVal.t \notin {"null", "undefined"}
             THEN LET numVal == CellNumber(tvVal)
                  IN  IF ~IsNaN(numVal) THEN numVal ELSE Undefined
             ELSE Undefined
    ELSE Undefined

\* part_000:555-567  the cell of data row chapterIndex (0-based) in the ratio
\* column gives a chapter value
ChapterCellCounts(row, ratioColIndex) ==
    LET cellValue == At(row, ratioColIndex)
    IN  /\ cellValue.t \notin {"null", "undefined"}
        /\ ~BlankText(cellValue)
        /\ ~IsNaN(CellNumber(cellValue))

\* part_000:549-568  the keys c{n} assigned to the project at projectIndex, as
\* a function from the chapter numbers n to the values
chaptersOfProject(dataRows, ratioColumns, projectIndex) ==
    IF projectIndex < Len(ratioColumns)
    THEN LET ratioColIndex == ratioColumns[projectIndex + 1]
         IN  [n \in {j \in DOMAIN dataRows : ChapterCellCounts(dataRows[j], ratioColIndex)} |->
                 CellNumber(At(dataRows[n], ratioColIndex))]
    ELSE <<>>

mergeMainAndRatios_needsBoth(main, supp) ==
    LET headerRowIndex == detectHeaderRow(supp, <<K_TV, K_TiLe>>)
        headerRow    == supp[headerRowIndex + 1]
        headers      == [i \in DOMAIN headerRow |-> HeaderText(headerRow[i])]
        dataRows     == SubSeq(supp, headerRowIndex + 2, Len(supp))
        tvColHeader  == findColumn(headers, <<K_TV>>)
        tvColIndex   == IF Truthy(tvColHeader) THEN IndexOf(headers, tvColHeader.s) ELSE -1
        ratioColumns == projectRatioColumns(headers)
    IN  IF Len(ratioColumns) = 0 \/ tvColIndex = -1
        THEN Threw("MissingRatioColumns")
        ELSE Returned([i \in DOMAIN main |->
                 [base |-> baseRow(main[i]),
                  tv   |-> tvOfProject(dataRows, tvColIndex, i - 1),
                  c    |-> chaptersOfProject(dataRows, ratioColumns, i - 1)]])

\* part_000:503-574
mergeMainAndRatios(main, supp) ==
    LET headerRowIndex == detectHeaderRow(supp, <<K_TV, K_TiLe>>)
        headerRow    == supp[headerRowIndex + 1]
        headers      == [i \in DOMAIN headerRow |-> HeaderText(headerRow[i])]
        dataRows     == SubSeq(supp, headerRowIndex + 2, Len(supp))
        tvColHeader  == findColumn(headers, <<K_TV>>)
        tvColIndex   == IF Truthy(tvColHeader) THEN IndexOf(headers, tvColHeader.s) ELSE -1
        ratioColumns == projectRatioColumns(headers)
    IN  IF Len(ratioColumns) = 0 /\ tvColIndex = -1
        THEN Threw("MissingRatioColumns")
        ELSE Returned([i \in DOMAIN main |->
                 [base |-> baseRow(main[i]),
                  tv   |-> tvOfProject(dataRows, tvColIndex, i - 1),
                  c    |-> chaptersOfProject(dataRows, ratioColumns, i - 1)]])

(***************************************************************************)
(* The call of mergeMainAndRatios on bounded inputs.                       *)
(***************************************************************************)
MaxTopics   == 3
MaxSuppRows == 2

\* the aggregated topic at position i of dfMain (distinct in every field)
AggregatedTopic(i) ==
    [tendetai      |-> Str(<<"T">> \o ToDecimal(i)),
     hotenhv       |-> Str(<<"A">> \o ToDecimal(i)),
     sohocvien     |-> i,
     nguoihuongdan |-> Str(<<"G">> \o ToDecimal(i))]

Topics(n) == [i \in 1..n |-> AggregatedTopic(i)]

H_TV     == Str(K_TV)
H_TiLe1  == Str(K_TiLe \o <<" ","1">>)
H_TiLe2  == Str(K_TiLe \o <<" ","2">>)
H_TiLe9  == Str(K_TiLe \o <<" ","9">>)
H_TiLe10 == Str(K_TiLe \o <<" ","1","0">>)
H_STT    == Str(<<"S","T","T">>)
H_GhiChu == Str(<<"G","h","i"," ","c","h","u">>)
H_Title  == Str(<<"B","a","n","g"," ","d","i","e","m">>)

V_28c5 == Str(<<"2","8",",","5">>)       \* '28,5'
V_7d5  == Str(<<"7",".","5">>)           \* '7.5'
V_1c5  == Str(<<"1",",","5">>)           \* '1,5'
V_abc  == Str(<<"a","b","c">>)
V_x    == Str(<<"x">>)
V_sp   == Str(<<" ">>)
V_e    == Str(<<>>)

TVCells    == {Null, V_e, V_sp, V_abc, V_28c5, V_7d5, Num(100)}
RatioCells == {Null, V_x, V_1c5, Num(20)}

\* the header rows: TV first, TV between the ratio columns in descending
\* order, ratio columns 10 and 9 alone, TV alone
HeaderTV12  == <<H_TV, H_TiLe1, H_TiLe2>>
HeaderTV21  == <<H_TiLe2, H_TV, H_TiLe1>>
Header109   == <<H_TiLe10, H_TiLe9>>
HeaderTV    == <<H_STT, H_TV>>
HeaderNone  == <<H_STT, H_GhiChu>>
\* a header row whose only candidate is "Tỉ lệ" without a number
HeaderBare  == <<H_STT, Str(K_TiLe)>>

\* data rows that vary the TV cell, and data rows that vary the ratio cells
RowsTV12  == {<<t, Num(20), V_1c5>> : t \in TVCells}
RowsTV21  == {<<V_1c5, t, Num(20)>> : t \in TVCells}
Rows12    == {r \in {<<Null, a, b>> : a \in RatioCells, b \in RatioCells} : NonBlankRow(r)}
Rows21    == {r \in {<<a, Null, b>> : a \in RatioCells, b \in RatioCells} : NonBlankRow(r)}
Rows109   == {r \in {<<a, b>> : a \in {Null, V_1c5}, b \in {Null, Num(20)}} : NonBlankRow(r)}
RowsTV    == {<<Num(10), t>> : t \in TVCells}

\* the example of the specification: TV values 10, '28,5', '' and two ratio
\* columns over three data rows
SuppExample ==
    <<HeaderTV12,
      <<Num(100), Num(10), Num(20)>>,
      <<V_28c5,   V_1c5,   V_7d5>>,
      <<V_e,      Num(30), V_28c5>>>>

\* a grid with a title row above the header row
SuppTitled ==
    <<<<H_Title, Null, Null>>, HeaderTV21, <<Num(20), V_7d5, V_1c5>>, <<V_x, V_28c5, Null>>>>

SuppGrids ==
    {<<HeaderTV12>> \o rows : rows \in SeqsUpTo(RowsTV12, MaxSuppRows)}
    \cup {<<HeaderTV21>> \o rows : rows \in SeqsUpTo(RowsTV21, MaxSuppRows)}
    \cup {<<HeaderTV12>> \o rows : rows \in SeqsUpTo(Rows12, MaxSuppRows)}
    \cup {<<HeaderTV21>> \o rows : rows \in SeqsUpTo(Rows21, MaxSuppRows)}
    \cup {<<Header109>> \o rows : rows \in SeqsUpTo(Rows109, MaxSuppRows)}
    \cup {<<HeaderTV>> \o rows : rows \in SeqsUpTo(RowsTV, MaxSuppRows)}
    \cup {<<HeaderNone>>, <<HeaderNone, <<Num(10), V_x>>>>, SuppExample, SuppTitled}
    \cup {<<HeaderBare>>, <<HeaderBare, <<Num(10), Num(20)>>>>}

InitMerge ==
    /\ pc = "call"
    /\ dfMain \in {Topics(n) : n \in 0..MaxTopics}
    /\ dfSupp \in SuppGrids
    /\ enrichedRows = NotRun
    /\ ConfigDefault /\ ClassifyIdle /\ ReportIdle /\ MainIdle /\ LaterIdle

\* part_000:599  const mergedData = mergeMainAndRatios(mainProcessed, suppRawData)
MergeCall ==
    /\ pc = "call"
    /\ enrichedRows' = mergeMainAndRatios(dfMain, dfSupp)
    /\ pc' = "done"
    /\ UNCHANGED <<dfMain, dfSupp, classifyVars, configVars, laterVars, reportVars, mainVars>>

NextMerge == MergeCall

SpecMerge == InitMerge /\ [][NextMerge]_vars

(***************************************************************************)
(* Properties of the Ratio Merger, stated on the grid and on the result    *)
(* without the functions of the merger.                                    *)
(***************************************************************************)
\* the header row of dfSupp is its first row unless that one is the title
C5_HeaderPos == IF dfSupp[1][1] = H_Title THEN 2 ELSE 1
C5_Header    == dfSupp[C5_HeaderPos]
C5_DataRows  == SubSeq(dfSupp, C5_HeaderPos + 1, Len(dfSupp))
C5_TVCols    == {c \in DOMAIN C5_Header : C5_Header[c] = H_TV}
C5_Merged    == pc = "done" /\ enrichedRows.error = ""

\* the number written in a cell, in tenths; Undefined for a cell that is
\* blank, missing or not a numeral
C5_Number(cell) ==
    CASE cell = V_28c5         -> Num(285)
      [] cell = V_7d5          -> Num(75)
      [] cell = V_1c5          -> Num(15)
      [] cell.t = "number"     -> cell
      [] OTHER                 -> Undefined

C5_ExpectedTV(i) ==
    IF C5_TVCols # {} /\ i <= Len(C5_DataRows)
    THEN C5_Number(C5_DataRows[i][CHOOSE c \in C5_TVCols : TRUE])
    ELSE Undefined

\* C5: after a successful merge, record i has tv exactly when a TV column
\* exists, data row i exists and its TV cell is a numeral with a comma or a
\* dot as decimal separator; the value is that number; a blank, non-numeric
\* or missing cell leaves tv absent, never 0.
C5_TVRowWise ==
    C5_Merged =>
        \A i \in DOMAIN enrichedRows.rows :
            /\ enrichedRows.rows[i].tv = C5_ExpectedTV(i)
            /\ (C5_ExpectedTV(i) = Undefined => enrichedRows.rows[i].tv # Num(0))

C5_Witness ==
    /\ C5_Merged
    /\ C5_Header = HeaderTV21
    /\ Len(dfMain) = 3 /\ Len(C5_DataRows) = 2
    /\ C5_DataRows[1][2] = V_sp /\ C5_DataRows[2][2] = V_28c5
    /\ enrichedRows.rows[1].tv = Undefined
    /\ enrichedRows.rows[2].tv = Num(285)
    /\ enrichedRows.rows[3].tv = Undefined

\* the ratio headers in ascending order of their trailing number
C6_Ascending == <<H_TiLe1, H_TiLe2, H_TiLe9, H_TiLe10>>
C6_Present   == SelectSeq(C6_Ascending, LAMBDA h : \E c \in DOMAIN C5_Header : C5_Header[c] = h)
C6_Column(n) == CHOOSE c \in DOMAIN C5_Header : C5_Header[c] = C6_Present[n]

C6_ExpectedChapters(i) ==
    IF i <= Len(C6_Present)
    THEN [j \in {k \in DOMAIN C5_DataRows :
                     C5_Number(C5_DataRows[k][C6_Column(i)]) # Undefined} |->
             C5_Number(C5_DataRows[j][C6_Column(i)])]
    ELSE <<>>

\* C6: after a successful merge, record i has the key c{j} exactly for the
\* data rows j whose cell in the i-th ratio column (columns taken in ascending
\* order of their trailing number) is non-blank and numeric, with the value of
\* that cell; it has no other chapter key, and a record without an i-th ratio
\* column has none.
C6_ChaptersColumnWise ==
    C5_Merged =>
        \A i \in DOMAIN enrichedRows.rows :
            enrichedRows.rows[i].c = C6_ExpectedChapters(i)

C6_Witness ==
    /\ C5_Merged
    /\ C5_Header = Header109
    /\ Len(dfMain) >= 2 /\ Len(C5_DataRows) = 2
    /\ C5_DataRows[1] = <<Null, Num(20)>> /\ C5_DataRows[2] = <<V_1c5, Num(20)>>
    /\ DOMAIN enrichedRows.rows[1].c = {1, 2}
    /\ DOMAIN enrichedRows.rows[2].c = {2}
    /\ enrichedRows.rows[2].c[2] = Num(15)

\* C7: the merge succeeds whenever a TV column or a ratio column exists; it
\* then returns one record per aggregated topic, in the same order, with the
\* names, title, count and advisor of the topic; a topic beyond the data rows
\* has no tv and a topic beyond the ratio columns has no chapter key.
C7_OneRecordPerTopic ==
    pc = "done" =>
        /\ enrichedRows.error = "" <=> (C5_TVCols # {} \/ C6_Present # <<>>)
        /\ enrichedRows.error = "" =>
            /\ Len(enrichedRows.rows) = Len(dfMain)
            /\ \A i \in DOMAIN dfMain :
                /\ enrichedRows.rows[i].base = dfMain[i]
                /\ i > Len(C5_DataRows) => enrichedRows.rows[i].tv = Undefined
                /\ i > Len(C6_Present) => enrichedRows.rows[i].c = <<>>

C7_Witness ==
    /\ C5_Merged
    /\ dfSupp = SuppExample
    /\ Len(dfMain) = 3 /\ Len(enrichedRows.rows) = 3
    /\ enrichedRows.rows[3].base = AggregatedTopic(3)
    /\ enrichedRows.rows[3].c = <<>>
    /\ enrichedRows.rows[2].c # <<>>

(***************************************************************************)
(* detectHeaderRow applied to grids of up to MaxGridRows rows.             *)
(***************************************************************************)
MaxGridRows == 12

\* rows of two cells, by what they hold of 'TV' and 'Tỉ lệ'
RowPlain     == <<Str(<<"S","T","T">>), Null>>
RowOneTV     == <<Str(<<"T","V">>), Str(<<"x">>)>>
RowTwoTV     == <<Str(<<"T","V"," ","1">>), Str(<<"t","v","2">>)>>
RowTVTiLe    == <<Str(<<"T","U+1EC9"," ","l","U+1EC7"," ","1">>), Str(<<"T","V">>)>>
RowBothInOne == <<Str(<<"T","V"," ","-"," ","T","U+1EC9"," ","l","U+1EC7">>), Null>>
MarkedRows   == {RowOneTV, RowTwoTV, RowTVTiLe, RowBothInOne}

KeywordLists == {<<K_TV, K_TiLe>>, <<K_TiLe>>, <<>>}

\* grids of plain rows with at most two other rows among them
HeaderGrids ==
    {[i \in 1..n |-> IF i = p THEN a ELSE IF i = q THEN b ELSE RowPlain] :
        n \in 0..MaxGridRows, p \in 1..MaxGridRows, q \in 1..MaxGridRows,
        a \in MarkedRows, b \in MarkedRows \cup {RowPlain}}

InitHeader ==
    /\ pc = "call"
    /\ argData \in HeaderGrids
    /\ argKeywords \in KeywordLists
    /\ resultRow = -1
    /\ argHeaders = <<>> /\ foundColumn = Null /\ argStr = Null
    /\ normalized = <<>> /\ normalizedTwice = <<>>
    /\ ConfigDefault /\ ClassifyIdle /\ ReportIdle /\ MainIdle /\ MergeIdle
    /\ SheetIdle /\ AppIdle

\* part_000:446 and 505  const headerRowIndex = detectHeaderRow(data, keywords)
DetectCall ==
    /\ pc = "call"
    /\ resultRow' = detectHeaderRow(argData, argKeywords)
    /\ pc' = "done"
    /\ UNCHANGED <<argData, argKeywords, argHeaders, foundColumn, argStr,
                   normalized, normalizedTwice, classifyVars, configVars,
                   reportVars, mainVars, mergeVars, sheetVars, appVars>>

NextHeader == DetectCall

SpecHeader == InitHeader /\ [][NextHeader]_vars

\* a row has at least two cells that hold a keyword of the list
C11_Qualifies(row) ==
    CASE argKeywords = <<K_TV, K_TiLe>> -> row \in {RowTwoTV, RowTVTiLe}
      [] OTHER                          -> FALSE

C11_Candidates ==
    {i \in 0..(Len(argData) - 1) : i < 10 /\ C11_Qualifies(argData[i + 1])}

\* C11: detectHeaderRow returns the lowest index below min(10, number of
\* rows) of a row with at least two cells holding a keyword, and 0 when there
\* is no such row, also when such rows exist only from index 10 on.
C11_FirstQualifyingRow ==
    pc = "done" =>
        resultRow = IF C11_Candidates = {} THEN 0
                    ELSE CHOOSE i \in C11_Candidates : \A j \in C11_Candidates : i <= j

C11_Witness ==
    /\ pc = "done"
    /\ argKeywords = <<K_TV, K_TiLe>>
    /\ Len(argData) = 12
    /\ argData[11] = RowTVTiLe /\ argData[3] = RowBothInOne
    /\ \A i \in 1..10 : argData[i] \notin {RowTwoTV, RowTVTiLe}
    /\ resultRow = 0

(***************************************************************************)
(* findColumn applied to header rows of up to MaxHeaders cells.            *)
(***************************************************************************)
MaxHeaders == 3

HdrTenDeTai      == K_TenDeTai
HdrTenDeTaiUpper == <<"T","U+00CA","N"," ","U+0110","U+1EC0"," ","T","U+00C0","I"," ","(","b","U+1EAF","t"," ","b","u","U+1ED9","c",")">>
HdrDeTai         == K_DeTai
HdrHoTenHV       == K_HoTenHV
HdrSTT           == <<"S","T","T">>
HdrEmpty         == <<>>
HeaderTexts      == {HdrTenDeTai, HdrTenDeTaiUpper, HdrDeTai, HdrHoTenHV, HdrSTT, HdrEmpty}

ColumnKeywordLists ==
    {<<K_TenDeTai, K_DeTai>>, <<K_DeTai, K_TenDeTai>>, <<K_HoTenHV, K_TenHocVien>>,
     <<K_TenHocVien, K_DeTai>>, <<>>}

InitColumn ==
    /\ pc = "call"
    /\ argHeaders \in SeqsUpTo(HeaderTexts, MaxHeaders)
    /\ argKeywords \in ColumnKeywordLists
    /\ foundColumn = Undefined
    /\ argData = <<>> /\ resultRow = 0 /\ argStr = Null
    /\ normalized = <<>> /\ normalizedTwice = <<>>
    /\ ConfigDefault /\ ClassifyIdle /\ ReportIdle /\ MainIdle /\ MergeIdle
    /\ SheetIdle /\ AppIdle

\* part_000:450-452 and 510  const col = findColumn(headers, keywords)
FindCall ==
    /\ pc = "call"
    /\ foundColumn' = findColumn(argHeaders, argKeywords)
    /\ pc' = "done"
    /\ UNCHANGED <<argData, argKeywords, argHeaders, resultRow, argStr,
                   normalized, normalizedTwice, classifyVars, configVars,
                   reportVars, mainVars, mergeVars, sheetVars, appVars>>

NextColumn == FindCall

SpecColumn == InitColumn /\ [][NextColumn]_vars

\* the header text h holds the keyword kw, accents, case and punctuation
\* apart ('Tên đề tài' holds 'De tai')
C12_Holds(h, kw) ==
    CASE kw = K_TenDeTai -> h \in {HdrTenDeTai, HdrTenDeTaiUpper}
      [] kw = K_DeTai    -> h \in {HdrTenDeTai, HdrTenDeTaiUpper, HdrDeTai}
      [] kw = K_HoTenHV  -> h = HdrHoTenHV
      [] OTHER           -> FALSE

C12_MatchedKeywords ==
    {k \in DOMAIN argKeywords : \E i \in DOMAIN argHeaders : C12_Holds(argHeaders[i], argKeywords[k])}

C12_FirstKeyword == CHOOSE k \in C12_MatchedKeywords : \A j \in C12_MatchedKeywords : k <= j

C12_HeadersOf(k) == {i \in DOMAIN argHeaders : C12_Holds(argHeaders[i], argKeywords[k])}

\* C12: findColumn returns null when no keyword is held by any header;
\* otherwise it takes the first keyword of the list that some header holds and
\* returns the original text of the first header holding it, also when a
\* later keyword is held by a header further left.
C12_KeywordPriority ==
    pc = "done" =>
        IF C12_MatchedKeywords = {} THEN foundColumn = Null
        ELSE LET hs == C12_HeadersOf(C12_FirstKeyword)
             IN  foundColumn = Str(argHeaders[CHOOSE i \in hs : \A j \in hs : i <= j])

C12_Witness ==
    /\ pc = "done"
    /\ argKeywords = <<K_TenDeTai, K_DeTai>>
    /\ argHeaders = <<HdrDeTai, HdrSTT, HdrTenDeTaiUpper>>
    /\ foundColumn = Str(HdrTenDeTaiUpper)

(***************************************************************************)
(* The rebuilt table (generateMergedExcel, part_000:601-621) and the       *)
(* direct-read path (readDataFileForReporting).  A sheet is held as the    *)
(* grid that XLSX.utils.sheet_to_json(ws, {header: 1, defval: null}) gives *)
(* for it: strings and numbers as written, null for a cell without value.  *)
(***************************************************************************)
K_SoHocVien     == <<"S","U+1ED1"," ","h","U+1ECD","c"," ","v","i","U+00EA","n">>
K_tendetai      == <<"t","e","n","d","e","t","a","i">>
K_hotenhv       == <<"h","o","t","e","n","h","v">>
K_sohocvien     == <<"s","o","h","o","c","v","i","e","n">>
K_nguoihuongdan == <<"n","g","u","o","i","h","u","o","n","g","d","a","n">>
S_c             == <<"c">>
S_chuong        == <<"c","h","u","o","n","g">>
S_NaN           == <<"N","a","N">>
S_null          == <<"n","u","l","l">>
S_undefined     == <<"u","n","d","e","f","i","n","e","d">>

\* String(n) of a number held in tenths
StringOfNumber(n) ==
    LET a == IF n < 0 THEN 0 - n ELSE n
    IN  (IF n < 0 THEN <<"-">> ELSE <<>>)
        \o ToDecimal(a \div 10)
        \o (IF a % 10 = 0 THEN <<>> ELSE <<".", DIGITS[(a % 10) + 1]>>)

\* String(v)
ToStringValue(v) ==
    CASE v.t = "string"    -> v.s
      [] v.t = "number"    -> StringOfNumber(v.n)
      [] v.t = "NaN"       -> S_NaN
      [] v.t = "null"      -> S_null
      [] OTHER             -> S_undefined

\* String(v || dflt)
StringOr(v, dflt) == IF Truthy(v) THEN ToStringValue(v) ELSE dflt

RECURSIVE SortedSeqOf(_)
\* the elements of a finite set of integers in ascending order
SortedSeqOf(S) ==
    IF S = {} THEN <<>>
    ELSE LET least == CHOOSE x \in S : \A y \in S : x <= y
         IN  <<least>> \o SortedSeqOf(S \ {least})

\* part_000:609-611  Object.keys(row).filter(k => k.startsWith('c')).sort(...):
\* the chapter numbers of the record in ascending order (the keys c{n} are
\* the only ones of a merged record that start with 'c')
chapterKeys(row) == SortedSeqOf(DOMAIN row.c)

\* part_000:601-616  one object of finalDataForSheet, as its keys in creation
\* order with their values (the count is a whole number, written in tenths)
finalRow(row) ==
    <<[k |-> K_TenDeTai,      v |-> row.base.tendetai],
      [k |-> K_NguoiHuongDan, v |-> row.base.nguoihuongdan],
      [k |-> K_SoHocVien,     v |-> Num(row.base.sohocvien * 10)],
      [k |-> K_HoTenHV,       v |-> row.base.hotenhv],
      [k |-> K_TV,            v |-> row.tv]>>
    \o [i \in DOMAIN chapterKeys(row) |->
           [k |-> <<"C">> \o ToDecimal(chapterKeys(row)[i]), v |-> row.c[chapterKeys(row)[i]]]]

RECURSIVE AppendNewKeys(_, _)
\* hdr with the keys of the pairs that it does not hold yet, in their order
AppendNewKeys(hdr, pairs) ==
    IF pairs = <<>> THEN hdr
    ELSE AppendNewKeys(IF \E j \in DOMAIN hdr : hdr[j] = Head(pairs).k
                       THEN hdr ELSE Append(hdr, Head(pairs).k),
                       Tail(pairs))

RECURSIVE SheetHeader(_, _)
\* XLSX.utils.json_to_sheet: the header row is the keys of the objects in
\* the order of their first appearance, object after object
SheetHeader(hdr, objects) ==
    IF objects = <<>> THEN hdr
    ELSE SheetHeader(AppendNewKeys(hdr, Head(objects)), Tail(objects))

\* the cell of an object under a header: its value, or no value when the
\* object has no such key or the value is undefined or null
SheetCell(object, key) ==
    IF \E i \in DOMAIN object : object[i].k = key /\ object[i].v.t \notin {"undefined", "null"}
    THEN object[CHOOSE i \in DOMAIN object : object[i].k = key].v
    ELSE Null

\* part_000:618-621  json_to_sheet(finalDataForSheet) written and read again
json_to_sheet(objects) ==
    IF objects = <<>> THEN <<>>
    ELSE LET hdr == SheetHeader(<<>>, objects)
         IN  <<[j \in DOMAIN hdr |-> Str(hdr[j])]>>
             \o [r \in DOMAIN objects |-> [j \in DOMAIN hdr |-> SheetCell(objects[r], hdr[j])]]

\* part_000:601-618  the sheet of a merged record list
sheetOfMerged(merged) == json_to_sheet([i \in DOMAIN merged |-> finalRow(merged[i])])

\* part_000:371-394  readFileAsArray: the rows of the sheet that are not blank
readFileAsArray(grid) == SelectSeq(grid, NonBlankRow)

RECURSIVE findIndexFrom(_, _, _)
\* part_000:635-642  findIndex, the loop over the keywords from position k on;
\* the result is 0-based, -1 when no header holds a keyword
findIndexFrom(normHeaders, kws, k) ==
    IF k > Len(kws) THEN -1
    ELSE LET normalizedKw == normalizeString(Str(kws[k]))
             hits == {i \in DOMAIN normHeaders : Includes(normHeaders[i], normalizedKw)}
         IN  IF hits # {} THEN (CHOOSE i \in hits : \A j \in hits : i <= j) - 1
             ELSE findIndexFrom(normHeaders, kws, k + 1)

findIndex(normHeaders, kws) == findIndexFrom(normHeaders, kws, 1)

\* header.match(/^(c|chuong|tile)\d+$/) of part_000:669
IsChapterHeader(header) ==
    \E prefix \in {S_c, S_chuong, S_tile} :
        /\ Len(header) > Len(prefix)
        /\ SubSeq(header, 1, Len(prefix)) = prefix
        /\ \A i \in (Len(prefix) + 1)..Len(header) : IsDigit(header[i])

\* part_000:673-674  the key `c${header.replace(/^(c|chuong|tile)/, '')}`: the
\* pattern is not anchored at the end and its first alternative is 'c', so of
\* 'chuong1' only the 'c' is removed
ChapterKey(header) ==
    IF SubSeq(header, 1, Len(S_c)) = S_c THEN S_c \o Tail(header)
    ELSE S_c \o SubSeq(header, Len(S_tile) + 1, Len(header))

\* the value that stands for NaN where a count is a plain integer
NaNCount == -1000000

\* parseInt(s, 10): a plain integer, or NaNCount for NaN
ParseIntOrNaN(s) ==
    LET t        == TrimStart(s)
        signed   == t # <<>> /\ Head(t) \in {"+", "-"}
        unsigned == IF signed THEN Tail(t) ELSE t
        digits   == LeadingDigits(unsigned)
    IN  IF digits = <<>> THEN NaNCount
        ELSE IF signed /\ Head(t) = "-" THEN 0 - DigitsValue(digits)
        ELSE DigitsValue(digits)

\* part_000:667-677  the chapter keys of a data row: every chapter column whose
\* cell is not null gives its key the parse of the cell, a later column
\* replacing an earlier one of the same key
chaptersOfRow(normHeaders, row) ==
    LET cols == {j \in DOMAIN normHeaders :
                    /\ IsChapterHeader(normHeaders[j])
                    /\ At(row, j - 1).t \notin {"null", "undefined"}}
        last(key) == CHOOSE j \in cols : /\ ChapterKey(normHeaders[j]) = key
                                         /\ \A i \in cols : ChapterKey(normHeaders[i]) = key => i <= j
    IN  [key \in {ChapterKey(normHeaders[j]) : j \in cols} |->
            ParseFloat(ReplaceFirstComma(ToStringValue(At(row, last(key) - 1))))]


\* part_000:654-680  the record of one data row; idx holds the column indices
\* found at part_000:644-648
rowData(normHeaders, row, idx) ==
    [base |-> [tendetai      |-> Str(StringOr(At(row, idx.tendetai), <<>>)),
               hotenhv       |-> Str(StringOr(At(row, idx.hotenhv), <<>>)),
               sohocvien     |-> IF idx.sohocvien # -1
                                 THEN ParseIntOrNaN(StringOr(At(row, idx.sohocvien), <<"0">>))
                                 ELSE 1,
               nguoihuongdan |-> IF idx.nguoihuongdan # -1
                                 THEN Str(StringOr(At(row, idx.nguoihuongdan), <<>>))
                                 ELSE Str(<<>>)],
     tv   |-> IF idx.tv # -1 /\ At(row, idx.tv).t \notin {"null", "undefined"}
              THEN ParseFloat(ReplaceFirstComma(ToStringValue(At(row, idx.tv))))
              ELSE Undefined,
     c    |-> chaptersOfRow(normHeaders, row)]

\* part_000:626-683  on the grid that XLSX gives for the file
readDataFileForReporting(grid) ==
    LET fileData == readFileAsArray(grid)
    IN  IF Len(fileData) < 2 THEN Threw("NotEnoughContent")
        ELSE LET normHeaders == [j \in DOMAIN fileData[1] |-> normalizeString(fileData[1][j])]
                 dataRows == Tail(fileData)
                 tendetaiIndex      == findIndex(normHeaders, <<K_TenDeTai, K_tendetai>>)
                 hotenhvIndex       == findIndex(normHeaders, <<K_HoTenHV, K_hotenhv>>)
                 sohocvienIndex     == findIndex(normHeaders, <<K_SoHocVien, K_sohocvien>>)
                 nguoihuongdanIndex == findIndex(normHeaders, <<K_NguoiHuongDan, K_nguoihuongdan>>)
                 tvIndex            == findIndex(normHeaders, <<K_TV>>)
             IN  IF tendetaiIndex = -1 \/ hotenhvIndex = -1
                 THEN Threw("MissingRequiredColumn")
                 ELSE LET idx == [tendetai      |-> tendetaiIndex,
                                  hotenhv       |-> hotenhvIndex,
                                  sohocvien     |-> sohocvienIndex,
                                  nguoihuongdan |-> nguoihuongdanIndex,
                                  tv            |-> tvIndex]
                          all == [r \in DOMAIN dataRows |->
                                     rowData(normHeaders, dataRows[r], idx)]
                      IN  Returned(SelectSeq(all, LAMBDA d :
                                 Truthy(d.base.tendetai) /\ Truthy(d.base.hotenhv)))

(***************************************************************************)
(* SpecSheet: the merge path followed by the rebuilt table and its         *)
(* re-reading, and the direct reading of a data file.                      *)
(***************************************************************************)
\* main grids: a student name of white space only; students above the first
\* topic
GridBlankName == <<HeaderA, <<Str(T_T1), Str(T_space)>>>>
GridLateTopic == <<HeaderA, <<Null, Str(T_A)>>, <<Str(T_T1), Str(T_B)>>>>

\* what processMainData hands to the merger
SheetMains ==
    {Topics(n) : n \in 0..MaxTopics}
    \cup {processMainData(g).rows : g \in {GridExample, GridBlankName, GridLateTopic}}

SheetSuppRows ==
    {r \in {<<t, a, b>> : t \in {Null, V_28c5, Num(0)}, a \in {Null, Num(20)},
                          b \in {Null, V_1c5}} : NonBlankRow(r)}

SheetSupps ==
    {<<HeaderTV12>> \o rows : rows \in SeqsUpTo(SheetSuppRows, MaxSuppRows)}
    \cup {SuppExample, <<HeaderNone>>}

\* data files given to the direct-read path: columns title, names, TV, C1
DataHeader == <<Str(K_TenDeTai), Str(K_HoTenHV), H_TV, Str(<<"C","1">>)>>
DataRows ==
    {<<Str(T_T1), Str(T_A), t, c>> : t \in {Null, V_e, V_abc, V_28c5, Num(100)},
                                     c \in {Null, Num(20), V_x}}
DataFiles == {<<DataHeader>> \o rows : rows \in SeqsUpTo(DataRows, MaxSuppRows)}

InitSheet ==
    /\ \/ /\ pc = "merge"
          /\ dfMain \in SheetMains
          /\ dfSupp \in SheetSupps
          /\ sheet = <<>>
       \/ /\ pc = "read"
          /\ dfMain = <<>>
          /\ dfSupp = <<>>
          /\ sheet \in DataFiles
    /\ enrichedRows = NotRun
    /\ reportData = NotRun
    /\ ConfigDefault /\ ClassifyIdle /\ ReportIdle /\ MainIdle /\ UtilIdle /\ AppIdle

\* part_000:599  mergeMainAndRatios(mainProcessed, suppRawData); an error
\* leaves generateMergedExcel
MergeStep ==
    /\ pc = "merge"
    /\ enrichedRows' = mergeMainAndRatios(dfMain, dfSupp)
    /\ pc' = IF enrichedRows'.error = "" THEN "write" ELSE "failed"
    /\ UNCHANGED <<dfMain, dfSupp, sheet, reportData, classifyVars, configVars,
                   reportVars, mainVars, utilVars, appVars>>

\* part_000:601-621  the rebuilt table
WriteSheet ==
    /\ pc = "write"
    /\ sheet' = sheetOfMerged(enrichedRows.rows)
    /\ pc' = "read"
    /\ UNCHANGED <<mergeVars, reportData, classifyVars, configVars, reportVars,
                   mainVars, utilVars, appVars>>

\* part_000:115  dataForReport = await readDataFileForReporting(reportDataFile)
ReadBack ==
    /\ pc = "read"
    /\ reportData' = readDataFileForReporting(sheet)
    /\ pc' = "done"
    /\ UNCHANGED <<mergeVars, sheet, classifyVars, configVars, reportVars,
                   mainVars, utilVars, appVars>>

NextSheet == MergeStep \/ WriteSheet \/ ReadBack

SpecSheet == InitSheet /\ [][NextSheet]_vars

C13_ReadBackDone == pc = "done" /\ enrichedRows # NotRun

\* the chapter keys of a merged record as the names c{n}
C13_Chapters(row) ==
    [key \in {S_c \o ToDecimal(n) : n \in DOMAIN row.c} |->
        row.c[CHOOSE n \in DOMAIN row.c : S_c \o ToDecimal(n) = key]]

\* C13: the rebuilt table of a merged record list, read by
\* readDataFileForReporting, gives the same number of records in the same
\* order, each with the same tendetai, hotenhv, tv (absent stays absent) and
\* the same chapter keys with the same values.
C13_RoundTrip ==
    C13_ReadBackDone =>
        /\ reportData.error = ""
        /\ Len(reportData.rows) = Len(enrichedRows.rows)
        /\ \A i \in DOMAIN reportData.rows :
            /\ reportData.rows[i].base.tendetai = enrichedRows.rows[i].base.tendetai
            /\ reportData.rows[i].base.hotenhv = enrichedRows.rows[i].base.hotenhv
            /\ reportData.rows[i].tv = enrichedRows.rows[i].tv
            /\ reportData.rows[i].c = C13_Chapters(enrichedRows.rows[i])

\* the round trip for the lists that are not empty and whose records all
\* have a title and a name list
C13_RoundTripOfNamedRecords ==
    (/\ C13_ReadBackDone
     /\ enrichedRows.rows # <<>>
     /\ \A i \in DOMAIN enrichedRows.rows :
            /\ Truthy(enrichedRows.rows[i].base.tendetai)
            /\ Truthy(enrichedRows.rows[i].base.hotenhv))
    => C13_RoundTrip

C14_Written == pc \in {"read", "done"} /\ enrichedRows # NotRun /\ sheet # <<>>

\* the chapter numbers that some record of the merged list holds
C14_ChapterNumbers == UNION {DOMAIN enrichedRows.rows[i].c : i \in DOMAIN enrichedRows.rows}

\* C14: the header row of the rebuilt table is title, advisor, student count,
\* student names, TV, then the chapter columns in ascending chapter number,
\* whatever chapter keys the records hold.
C14_ColumnOrder ==
    C14_Written =>
        sheet[1] = <<Str(K_TenDeTai), Str(K_NguoiHuongDan), Str(K_SoHocVien),
                     Str(K_HoTenHV), Str(K_TV)>>
                   \o [i \in 1..Cardinality(C14_ChapterNumbers) |->
                          Str(<<"C">> \o ToDecimal(SortedSeqOf(C14_ChapterNumbers)[i]))]

\* the same for the lists in which every record holds the same chapter keys
\* or none
C14_ColumnOrderOfDenseLists ==
    (\A i, j \in DOMAIN enrichedRows.rows :
        \/ DOMAIN enrichedRows.rows[i].c = DOMAIN enrichedRows.rows[j].c
        \/ DOMAIN enrichedRows.rows[i].c = {}
        \/ DOMAIN enrichedRows.rows[j].c = {})
    => C14_ColumnOrder

C15_Records ==
    {enrichedRows.rows[i] : i \in DOMAIN enrichedRows.rows}
    \cup {reportData.rows[i] : i \in DOMAIN reportData.rows}

\* C15: every record of the merger and of the direct-read path that has tv
\* holds a number in it, never NaN.
C15_TVIsANumber ==
    \A r \in C15_Records : r.tv # Undefined => r.tv.t = "number"

\* the same for the records of the merger alone
C15_MergedTVIsANumber ==
    \A i \in DOMAIN enrichedRows.rows :
        enrichedRows.rows[i].tv # Undefined => enrichedRows.rows[i].tv.t = "number"

(***************************************************************************)
(* The App component (part_000:30-340): its state, the two handlers and    *)
(* the controls of the page.  A file is held as the grid XLSX reads from   *)
(* it (or as unreadable), the template file as its name.  A state value    *)
(* that may be null carries the flag isNull.                               *)
(***************************************************************************)
NoFile      == [chosen |-> FALSE, readable |-> TRUE,  grid |-> <<>>, name |-> <<>>]
GridFile(g) == [chosen |-> TRUE,  readable |-> TRUE,  grid |-> g,    name |-> <<>>]
Unreadable  == [chosen |-> TRUE,  readable |-> FALSE, grid |-> <<>>, name |-> <<>>]
Template(n) == [chosen |-> TRUE,  readable |-> TRUE,  grid |-> <<>>, name |-> n]

NullData   == [isNull |-> TRUE,  rows |-> <<>>]
Data(rows) == [isNull |-> FALSE, rows |-> rows]

NullStats ==
    [isNull |-> TRUE, totalProjects |-> 0, totalStudents |-> 0,
     withinLimit |-> 0, l1Edit |-> 0, l2Process |-> 0, l2Exceeded |-> 0]

NullCategorized ==
    [isNull |-> TRUE, withinLimit |-> <<>>, l1Edit |-> <<>>, l2Process |-> <<>>,
     l2Exceeded |-> <<>>]

Categories == {"withinLimit", "l1Edit", "l2Process", "l2Exceeded"}

RECURSIVE totalStudents(_)
\* part_000:75 and 169  data.reduce((acc, row) => acc + (row['sohocvien'] || 0), 0)
totalStudents(rows) ==
    IF rows = <<>> THEN 0
    ELSE (IF Head(rows).base.sohocvien = NaNCount THEN 0 ELSE Head(rows).base.sohocvien)
         + totalStudents(Tail(rows))

\* part_000:73-80  the statistics set after a merge
statsAfterMerge(rows) ==
    [isNull |-> FALSE, totalProjects |-> Len(rows), totalStudents |-> totalStudents(rows),
     withinLimit |-> 0, l1Edit |-> 0, l2Process |-> 0, l2Exceeded |-> 0]

\* part_000:184  the category of one record
categoryOfRow(row, effective, first) ==
    getConclusionCategory(OrZero(row.tv), effective, first)

categorize_listsOnlyProblems(rows, effective, first) ==
    [isNull      |-> FALSE,
     withinLimit |-> <<>>,
     l1Edit      |-> SelectSeq(rows, LAMBDA r : categoryOfRow(r, effective, first) = "l1Edit"),
     l2Process   |-> SelectSeq(rows, LAMBDA r : categoryOfRow(r, effective, first) = "l2Process"),
     l2Exceeded  |-> SelectSeq(rows, LAMBDA r : categoryOfRow(r, effective, first) = "l2Exceeded")]

\* part_000:176-187  the records of each category, in the order of the list
categorize(rows, effective, first) ==
    [isNull      |-> FALSE,
     withinLimit |-> SelectSeq(rows, LAMBDA r : categoryOfRow(r, effective, first) = "withinLimit"),
     l1Edit      |-> SelectSeq(rows, LAMBDA r : categoryOfRow(r, effective, first) = "l1Edit"),
     l2Process   |-> SelectSeq(rows, LAMBDA r : categoryOfRow(r, effective, first) = "l2Process"),
     l2Exceeded  |-> SelectSeq(rows, LAMBDA r : categoryOfRow(r, effective, first) = "l2Exceeded")]

\* part_000:167-187  the statistics computed after the reports
newStats(rows, effective, first) ==
    LET byCategory == categorize(rows, effective, first)
    IN  [isNull |-> FALSE, totalProjects |-> Len(rows),
         totalStudents |-> totalStudents(rows),
         withinLimit |-> Len(byCategory.withinLimit),
         l1Edit      |-> Len(byCategory.l1Edit),
         l2Process   |-> Len(byCategory.l2Process),
         l2Exceeded  |-> Len(byCategory.l2Exceeded)]

\* no handler has run yet: the values of the first render
NoClosure ==
    [isFirstCheck |-> TRUE, projectType |-> DATN, mergedData |-> NullData,
     wordTemplateFile |-> NoFile]

\* no handler has awaited anything yet
NothingAwaited == [error |-> "", rows |-> <<>>, logs |-> <<>>]

\* generateMergedExcel throws after n entries were added to the log
mergeFailed(msg, n) == [error |-> msg, rows |-> <<>>, logs |-> [i \in 1..n |-> "info"]]

\* part_000:598-623  from the merge on
afterMerge(merged) ==
    IF merged.error # "" THEN mergeFailed(merged.error, 4)
    ELSE [error |-> "", rows |-> merged.rows, logs |-> [i \in 1..4 |-> "info"]]

\* part_000:595-599  from the check of the supplementary grid on
afterSuppRead(processed, suppRawData) ==
    IF Len(suppRawData) = 0 THEN mergeFailed("SuppFileEmpty", 3)
    ELSE afterMerge(mergeMainAndRatios(processed.rows, suppRawData))

\* part_000:592-595  from the result of processMainData on
afterProcess(processed, supp) ==
    IF processed.error # "" THEN mergeFailed(processed.error, 2)
    ELSE IF ~supp.readable THEN mergeFailed("Unreadable", 3)
    ELSE afterSuppRead(processed, readFileAsArray(supp.grid))

\* part_000:589-592  from the check of the main grid on
afterMainRead(mainRawData, supp) ==
    IF Len(mainRawData) = 0 THEN mergeFailed("MainFileEmpty", 1)
    ELSE afterProcess(processMainData(mainRawData), supp)

\* part_000:581-623  generateMergedExcel: the error or the merged records,
\* with the entries it adds to the log before it returns or throws
generateMergedExcel(main, supp) ==
    IF ~main.readable THEN mergeFailed("Unreadable", 1)
    ELSE afterMainRead(readFileAsArray(main.grid), supp)

\* part_000:626-627  readDataFileForReporting of a chosen file
readReportFile(file) ==
    IF ~file.readable THEN Threw("Unreadable") ELSE readDataFileForReporting(file.grid)

\* part_000:102 and 291  canGenerateReports
canGenerate ==
    /\ wordTemplateFile.chosen
    /\ \/ ~mergedData.isNull
       \/ reportDataFile.chosen
       \/ (mainFile.chosen /\ supplementaryFile.chosen)

(***************************************************************************)
(* SpecApp: the page with its files chosen, then any sequence of clicks on *)
(* the two buttons, the check box, the type selector and the side bar.     *)
(***************************************************************************)
MaxLogs == 8

MergeInputs ==
    {<<NoFile, NoFile>>,
     <<GridFile(GridExample), GridFile(SuppExample)>>,
     <<GridFile(GridNoTopic), GridFile(SuppExample)>>,
     <<GridFile(<<>>),        GridFile(SuppExample)>>,
     <<GridFile(GridExample), GridFile(<<HeaderNone>>)>>,
     <<GridFile(GridExample), GridFile(<<>>)>>,
     <<Unreadable,            GridFile(SuppExample)>>}

\* a data file with three records (TV 10, 28.5, 40) and one without row
DataGood ==
    <<DataHeader, <<Str(T_T1), Str(T_A), Num(100), Null>>,
                  <<Str(T_T2), Str(T_B), V_28c5, Num(20)>>,
                  <<Str(T_1),  Str(T_C), Num(400), Null>>>>
\* a data file whose only row has no student name: the filter of
\* part_000:682 leaves no record
DataNoName == <<DataHeader, <<Str(T_T1), Null, Num(100), Null>>>>
ReportFiles == {NoFile, GridFile(DataGood), GridFile(DataNoName), Unreadable}

Templates == {NoFile, Template(N_Mau_DATN_v2), Template(N_template)}

\* the files the uploaders of SpecFiles offer
MainChoices     == {GridFile(GridExample), GridFile(GridLateTopic), Unreadable}
SuppChoices     == {GridFile(SuppExample)}
ReportChoices   == {GridFile(DataNoName)}
TemplateChoices == {Template(N_template)}

\* one topic with one student; one TV cell; one record
GridTiny == <<HeaderA, <<Str(T_T1), Str(T_A)>>>>
SuppTiny == <<HeaderTV, <<Null, Num(100)>>>>
DataTiny == <<DataHeader, <<Str(T_T1), Str(T_A), Num(100), Null>>>>

\* every file of the three specifications of the handlers
AllMainFiles   == {pair[1] : pair \in MergeInputs} \cup MainChoices \cup {GridFile(GridTiny)}
AllSuppFiles   == {pair[2] : pair \in MergeInputs} \cup SuppChoices \cup {GridFile(SuppTiny)}
AllReportFiles == ReportFiles \cup ReportChoices \cup {GridFile(DataTiny)}

\* generateMergedExcel and readDataFileForReporting, tabulated over these
\* files
mergedOf == [main \in AllMainFiles |-> [supp \in AllSuppFiles |-> generateMergedExcel(main, supp)]]
reportOf == [file \in AllReportFiles |-> readReportFile(file)]

\* what generateWordReports (part_000:759-782) and the statistics
\* (part_000:157-165) make of a template's name under a project type,
\* tabulated over the templates
templateOf ==
    [file \in Templates \cup TemplateChoices |-> [type \in ProjectTypes |->
        [renderer |-> RendererEffectiveType(file.name, type),
         baseName |-> BaseName(file.name, RendererEffectiveType(file.name, type)),
         stats    |-> StatsEffectiveType(file.name, type)]]]

InitApp ==
    /\ pc = "idle"
    /\ \E pair \in MergeInputs : mainFile = pair[1] /\ supplementaryFile = pair[2]
    /\ reportDataFile \in ReportFiles
    /\ wordTemplateFile \in Templates
    /\ mergedData = NullData
    /\ dashboardStats = NullStats
    /\ categorizedProjects = NullCategorized
    /\ activeView = "files"
    /\ logs = <<>>
    /\ downloads = <<>>
    /\ isProcessing = FALSE
    /\ dataForReport = NullData
    /\ closure = NoClosure
    /\ awaited = NothingAwaited
    /\ ConfigDefault /\ ClassifyIdle /\ ReportIdle /\ MainIdle /\ MergeIdle
    /\ UtilIdle /\ SheetIdle

appFiles == <<mainFile, supplementaryFile, reportDataFile, wordTemplateFile>>
appOther == <<classifyVars, mainVars, mergeVars, utilVars, sheetVars>>

\* part_000:266  the check box of the files view
SetIsFirstCheck ==
    /\ activeView = "files"
    /\ isFirstCheck' = ~isFirstCheck
    /\ UNCHANGED <<pc, projectType, reportVars, appFiles, mergedData, dashboardStats,
                   categorizedProjects, activeView, logs, downloads, isProcessing,
                   dataForReport, closure, awaited, appOther>>

\* part_000:275  the type selector of the files view
SetProjectType ==
    /\ activeView = "files"
    /\ projectType' \in ProjectTypes \ {projectType}
    /\ UNCHANGED <<pc, isFirstCheck, reportVars, appFiles, mergedData, dashboardStats,
                   categorizedProjects, activeView, logs, downloads, isProcessing,
                   dataForReport, closure, awaited, appOther>>

\* part_000:295  the side bar
SetActiveView ==
    /\ activeView' \in {"files", "data", "stats"} \ {activeView}
    /\ UNCHANGED <<pc, configVars, reportVars, appFiles, mergedData, dashboardStats,
                   categorizedProjects, logs, downloads, isProcessing,
                   dataForReport, closure, awaited, appOther>>

MergeStart_ignoresFlag ==
    /\ mainFile.chosen /\ supplementaryFile.chosen
    /\ Len(logs) < MaxLogs
    /\ isProcessing' = TRUE
    /\ logs' = Append(logs, "info")
    /\ awaited' = mergedOf[mainFile][supplementaryFile]
    /\ pc' = "merging"
    /\ UNCHANGED <<configVars, reportVars, appFiles, mergedData, dashboardStats,
                   categorizedProjects, activeView, downloads, dataForReport,
                   closure, appOther>>

\* part_000:55-62, reached through the button of part_000:308-315
MergeStart ==
    /\ ~isProcessing
    /\ mainFile.chosen /\ supplementaryFile.chosen
    /\ Len(logs) < MaxLogs
    /\ isProcessing' = TRUE
    /\ logs' = Append(logs, "info")
    /\ awaited' = mergedOf[mainFile][supplementaryFile]
    /\ pc' = "merging"
    /\ UNCHANGED <<configVars, reportVars, appFiles, mergedData, dashboardStats,
                   categorizedProjects, activeView, downloads, dataForReport,
                   closure, appOther>>

\* part_000:64-81 and 96-98  generateMergedExcel returns
MergeSucceeds ==
    /\ pc = "merging"
    /\ awaited.error = ""
    /\ mergedData' = Data(awaited.rows)
    /\ logs' = logs \o awaited.logs \o <<"success", "info">>
    /\ downloads' = Append(downloads, "File_Gop.xlsx")
    /\ activeView' = "data"
    /\ dashboardStats' = statsAfterMerge(awaited.rows)
    /\ isProcessing' = FALSE
    /\ pc' = "idle"
    /\ UNCHANGED <<configVars, reportVars, appFiles, categorizedProjects,
                   dataForReport, closure, awaited, appOther>>

MergeFails_clearsData ==
    /\ pc = "merging"
    /\ awaited.error # ""
    /\ logs' = logs \o awaited.logs \o <<"error">>
    /\ mergedData' = Data(<<>>)
    /\ dashboardStats' = statsAfterMerge(<<>>)
    /\ isProcessing' = FALSE
    /\ pc' = "idle"
    /\ UNCHANGED <<configVars, reportVars, appFiles, categorizedProjects, activeView,
                   downloads, dataForReport, closure, awaited, appOther>>

\* part_000:84-98  generateMergedExcel throws
MergeFails ==
    /\ pc = "merging"
    /\ awaited.error # ""
    /\ logs' = logs \o awaited.logs \o <<"error">>
    /\ isProcessing' = FALSE
    /\ pc' = "idle"
    /\ UNCHANGED <<configVars, reportVars, appFiles, mergedData, dashboardStats,
                   categorizedProjects, activeView, downloads, dataForReport,
                   closure, awaited, appOther>>

\* part_000:113-116  the data file was read
fromDataFile(r) ==
    IF r.error # ""
    THEN [error |-> r.error, rows |-> <<>>, logs |-> <<"info", "error">>]
    ELSE [error |-> "", rows |-> r.rows, logs |-> <<"info", "success">>]

\* part_000:124-128  the input files were merged on the fly
fromInputFiles(g) ==
    IF g.error # ""
    THEN [error |-> g.error, rows |-> <<>>, logs |-> <<"info">> \o g.logs \o <<"error">>]
    ELSE [error |-> "", rows |-> g.rows, logs |-> <<"info">> \o g.logs \o <<"success">>]

dataSource_mergedFirst ==
    IF ~mergedData.isNull
    THEN [error |-> "", rows |-> mergedData.rows, logs |-> <<"info">>]
    ELSE IF reportDataFile.chosen THEN fromDataFile(reportOf[reportDataFile])
    ELSE fromInputFiles(mergedOf[mainFile][supplementaryFile])

\* part_000:110-129  the records the reports are made from, with the log
\* entries of the step; error "" when a source was read
dataSource ==
    IF reportDataFile.chosen THEN fromDataFile(reportOf[reportDataFile])
    ELSE IF ~mergedData.isNull
    THEN [error |-> "", rows |-> mergedData.rows, logs |-> <<"info">>]
    ELSE fromInputFiles(mergedOf[mainFile][supplementaryFile])

generateClicked ==
    /\ ~isProcessing
    /\ canGenerate
    /\ Len(logs) < MaxLogs

\* part_000:101-129  the handler starts and awaits the read of its source
GenerateRead ==
    /\ generateClicked
    /\ isProcessing' = TRUE
    /\ awaited' = dataSource
    /\ closure' = [isFirstCheck |-> isFirstCheck, projectType |-> projectType,
                    mergedData |-> mergedData, wordTemplateFile |-> wordTemplateFile]
    /\ pc' = "reading"
    /\ UNCHANGED <<configVars, reportVars, appFiles, mergedData, dashboardStats,
                   categorizedProjects, activeView, logs, downloads, dataForReport,
                   appOther>>

\* part_000:195-209  the source of the records cannot be read
GenerateSourceFails ==
    /\ pc = "reading"
    /\ awaited.error # ""
    /\ logs' = logs \o awaited.logs
    /\ isProcessing' = FALSE
    /\ pc' = "idle"
    /\ UNCHANGED <<configVars, reportVars, appFiles, mergedData, dashboardStats,
                   categorizedProjects, activeView, downloads, dataForReport,
                   closure, awaited, appOther>>

GenerateNoData_keepsFlag ==
    /\ pc = "reading"
    /\ awaited.error = "" /\ awaited.rows = <<>>
    /\ logs' = logs \o awaited.logs \o <<"warning">>
    /\ isProcessing' = isProcessing
    /\ pc' = "idle"
    /\ UNCHANGED <<configVars, reportVars, appFiles, mergedData, dashboardStats,
                   categorizedProjects, activeView, downloads, dataForReport,
                   closure, awaited, appOther>>

\* part_000:131-135  the source holds no record
GenerateNoData ==
    /\ pc = "reading"
    /\ awaited.error = "" /\ awaited.rows = <<>>
    /\ logs' = logs \o awaited.logs \o <<"warning">>
    /\ isProcessing' = FALSE
    /\ pc' = "idle"
    /\ UNCHANGED <<configVars, reportVars, appFiles, mergedData, dashboardStats,
                   categorizedProjects, activeView, downloads, dataForReport,
                   closure, awaited, appOther>>

\* part_000:137-149 and 746-782  up to the first record of generateWordReports
GenerateStart ==
    /\ pc = "reading"
    /\ awaited.error = "" /\ awaited.rows # <<>>
    /\ dataForReport' = Data(awaited.rows)
    /\ mergedData' = Data(awaited.rows)
    /\ logs' = logs \o awaited.logs \o <<"info">>
    /\ templateName' = closure.wordTemplateFile.name
    /\ batchSize' = Len(awaited.rows)
    /\ index' = 0
    /\ reportsZip' = <<>>
    /\ effectiveProjectType' = templateOf[closure.wordTemplateFile][closure.projectType].renderer
    /\ baseName' = templateOf[closure.wordTemplateFile][closure.projectType].baseName
    /\ pc' = "rendering"
    /\ UNCHANGED <<configVars, statsProjectType, appFiles, dashboardStats,
                   categorizedProjects, activeView, downloads, isProcessing,
                   closure, awaited, appOther>>

AppRenderFails_skipsRecord ==
    /\ pc = "rendering"
    /\ index < batchSize
    /\ index' = index + 1
    /\ UNCHANGED <<pc, configVars, templateName, batchSize, effectiveProjectType,
                   baseName, reportsZip, statsProjectType, appVars, appOther>>

\* part_000:785-844  one record whose doc.render() succeeds
AppRenderRecord ==
    /\ pc = "rendering"
    /\ index < batchSize
    /\ reportsZip' = Append(reportsZip, FileName(baseName, index))
    /\ index' = index + 1
    /\ UNCHANGED <<pc, configVars, templateName, batchSize, effectiveProjectType,
                   baseName, statsProjectType, appVars, appOther>>

\* part_000:823-835 and 195-209  doc.render() throws: generateWordReports
\* rejects, the package is dropped, the handler logs the error
AppRenderFails ==
    /\ pc = "rendering"
    /\ index < batchSize
    /\ reportsZip' = <<>>
    /\ logs' = Append(logs, "error")
    /\ isProcessing' = FALSE
    /\ pc' = "idle"
    /\ UNCHANGED <<configVars, templateName, batchSize, index, effectiveProjectType,
                   baseName, statsProjectType, appFiles, mergedData, dashboardStats,
                   categorizedProjects, activeView, downloads, dataForReport,
                   closure, awaited, appOther>>

\* part_000:846 and 150-192  the package is returned and saved, the
\* statistics are computed with the values the handler was started with
GenerateFinish ==
    /\ pc = "rendering"
    /\ index = batchSize
    /\ downloads' = Append(downloads, "Cac_Bao_Cao.zip")
    /\ statsProjectType' = templateOf[closure.wordTemplateFile][closure.projectType].stats
    /\ dashboardStats' = newStats(dataForReport.rows, statsProjectType', closure.isFirstCheck)
    /\ categorizedProjects' = categorize(dataForReport.rows, statsProjectType', closure.isFirstCheck)
    /\ logs' = logs \o <<"success", "info", "info", "success">>
    /\ activeView' = "stats"
    /\ isProcessing' = FALSE
    /\ pc' = "idle"
    /\ UNCHANGED <<configVars, templateName, batchSize, index, effectiveProjectType,
                   baseName, reportsZip, appFiles, mergedData, dataForReport,
                   closure, awaited, appOther>>

NextApp ==
    \/ SetIsFirstCheck \/ SetProjectType \/ SetActiveView
    \/ MergeStart \/ MergeSucceeds \/ MergeFails
    \/ GenerateRead \/ GenerateSourceFails \/ GenerateNoData \/ GenerateStart
    \/ AppRenderRecord \/ AppRenderFails \/ GenerateFinish

SpecApp == InitApp /\ [][NextApp]_vars


(***************************************************************************)
(* Claims about the handlers of App.tsx, over SpecApp                      *)
(***************************************************************************)
\* the number of entries of a log that have the given type
CountOf(entries, type) == Cardinality({i \in DOMAIN entries : entries[i] = type})

\* C16: while generateWordReports is at record index < batchSize, a step
\* either renders that record (one more document, named after its position),
\* or leaves the batch alone, or aborts: the package is dropped with the
\* documents of records 0..index-1, index stays where the failure was, one
\* error is logged; in none of these steps is anything downloaded or are
\* dashboardStats and categorizedProjects changed.
C16_RenderFailureAbortsBatch ==
    [][(pc = "rendering" /\ index < batchSize) =>
         /\ downloads' = downloads
         /\ dashboardStats' = dashboardStats
         /\ categorizedProjects' = categorizedProjects
         /\ \/ /\ pc' = "rendering"
               /\ index' = index + 1
               /\ reportsZip' = Append(reportsZip, FileName(baseName, index))
            \/ /\ pc' = "rendering"
               /\ index' = index
               /\ reportsZip' = reportsZip
            \/ /\ pc' = "idle"
               /\ index' = index
               /\ reportsZip' = <<>>
               /\ logs' = Append(logs, "error")]_vars

\* the record at position 1 or later failed: the handler is back, the
\* documents rendered before are gone and no package was downloaded
C16_Witness ==
    /\ pc = "idle"
    /\ 1 <= index /\ index < batchSize
    /\ reportsZip = <<>>
    /\ logs # <<>> /\ logs[Len(logs)] = "error"
    /\ CountOf(downloads, "Cac_Bao_Cao.zip") = 0
    /\ dashboardStats.isNull /\ categorizedProjects.isNull

\* C17: whenever no handler is running and dashboardStats is set, it is the
\* reduction of the current mergedData under the current isFirstCheck and
\* the project type in effect for the chosen template.
C17_StatsFollowDataAndConfig ==
    (pc = "idle" /\ ~dashboardStats.isNull /\ ~mergedData.isNull) =>
        dashboardStats = newStats(mergedData.rows,
                                  StatsEffectiveType(wordTemplateFile.name, projectType),
                                  isFirstCheck)

\* C19: the step in which handleMergeExcel catches the error of
\* generateMergedExcel leaves mergedData, dashboardStats, activeView and the
\* downloads as they were and adds exactly one error entry to the log; until
\* then the pending merge changes none of mergedData, dashboardStats and the
\* downloads.
C19_FailedMergeLeavesNoTrace ==
    [][(pc = "merging" /\ awaited.error # "") =>
         /\ mergedData' = mergedData
         /\ dashboardStats' = dashboardStats
         /\ downloads' = downloads
         /\ pc' = "idle" =>
              /\ activeView' = activeView
              /\ CountOf(logs', "error") = CountOf(logs, "error") + 1
              /\ logs'[Len(logs')] = "error"
              /\ CountOf(logs', "success") = CountOf(logs, "success")]_vars

\* a merge has failed while the records of a data file are shown: they are
\* still there, and no merged file was downloaded
C19_Witness ==
    /\ pc = "idle"
    /\ awaited.error # ""
    /\ logs # <<>> /\ logs[Len(logs)] = "error"
    /\ ~mergedData.isNull /\ mergedData.rows # <<>>
    /\ CountOf(downloads, "File_Gop.xlsx") = 0

\* what does hold of the statistics: the step that finishes a generation sets
\* them to the reduction of the records the reports were made from, under the
\* isFirstCheck and projectType the handler was started with
C17_StatsOfFinishedGeneration ==
    [][(pc = "rendering" /\ index = batchSize /\ pc' = "idle") =>
         dashboardStats' = newStats(mergedData'.rows,
                                    StatsEffectiveType(closure.wordTemplateFile.name, closure.projectType),
                                    closure.isFirstCheck)]_vars


\* the header row of the supplementary grid has a TV column, a ratio column
C18_HasTV    == \E c \in DOMAIN C5_Header : C5_Header[c] = H_TV
C18_HasRatio == \E c \in DOMAIN C5_Header : C5_Header[c] \in {H_TiLe1, H_TiLe2, H_TiLe9, H_TiLe10}

\* C18: mergeMainAndRatios throws, and only for missing ratio columns,
\* exactly when the header row has neither a TV column nor a ratio column;
\* a throw leaves no record; with a TV column alone or ratio columns alone
\* it returns one record per topic.
C18_MissingRatioColumns ==
    pc = "done" /\ enrichedRows # NotRun =>
        /\ enrichedRows.error \in {"", "MissingRatioColumns"}
        /\ enrichedRows.error = "MissingRatioColumns" <=> (~C18_HasTV /\ ~C18_HasRatio)
        /\ enrichedRows.error # "" => enrichedRows.rows = <<>>
        /\ (C18_HasTV /\ ~C18_HasRatio) => Len(enrichedRows.rows) = Len(dfMain)
        /\ (C18_HasRatio /\ ~C18_HasTV) => Len(enrichedRows.rows) = Len(dfMain)

\* topics were handed over with a grid whose header row names "Tỉ lệ"
\* without a number and no TV: the merge threw
C18_Witness ==
    /\ pc = "done"
    /\ Len(dfMain) >= 1
    /\ dfSupp = <<HeaderBare, <<Num(10), Num(20)>>>>
    /\ enrichedRows = Threw("MissingRatioColumns")


(***************************************************************************)
(* SpecNormalize: normalizeString (part_000:353-363) applied to a value    *)
(* and then to its own result.                                             *)
(***************************************************************************)
MaxStrLen == 3

\* letters with and without accents, in both cases, the stroked d, a digit,
\* white space, punctuation and a combining mark on its own
NormalizeAlphabet ==
    {"U+0110", "U+0111", "d", "D", "U+1EC1", "U+00CA", "e", "1", " ", "-", "U+0300"}

\* the spellings of the example: 'Đề Tài', 'de tai', 'DÊ TAI', 'đề-tài 1'
X_DeTaiAccented == <<"U+0110","U+1EC1"," ","T","U+00E0","i">>
X_DeTaiPlain    == <<"d","e"," ","t","a","i">>
X_DeTaiUpper    == <<"D","U+00CA"," ","T","A","I">>
X_DeTaiDashed   == <<"U+0111","U+1EC1","-","t","U+00E0","i"," ","1">>

NormalizeInputs ==
    {Null, Undefined, NaN, Num(0), Num(285)}
    \cup {Str(s) : s \in SeqsUpTo(NormalizeAlphabet, MaxStrLen)}
    \cup {Str(X_DeTaiAccented), Str(X_DeTaiPlain), Str(X_DeTaiUpper), Str(X_DeTaiDashed)}

InitNormalize ==
    /\ pc = "call"
    /\ argStr \in NormalizeInputs
    /\ normalized = <<>> /\ normalizedTwice = <<>>
    /\ argData = <<>> /\ argKeywords = <<>> /\ resultRow = 0
    /\ argHeaders = <<>> /\ foundColumn = Null
    /\ ConfigDefault /\ ClassifyIdle /\ ReportIdle /\ MainIdle /\ MergeIdle
    /\ SheetIdle /\ AppIdle

normalizeOther ==
    <<argData, argKeywords, argHeaders, resultRow, foundColumn, argStr,
      classifyVars, configVars, reportVars, mainVars, mergeVars, sheetVars, appVars>>

\* normalizeString(str)
NormalizeCall ==
    /\ pc = "call"
    /\ normalized' = normalizeString(argStr)
    /\ pc' = "once"
    /\ UNCHANGED <<normalizedTwice, normalizeOther>>

\* normalizeString(normalizeString(str))
NormalizeAgain ==
    /\ pc = "once"
    /\ normalizedTwice' = normalizeString(Str(normalized))
    /\ pc' = "twice"
    /\ UNCHANGED <<normalized, normalizeOther>>

NextNormalize == NormalizeCall \/ NormalizeAgain

SpecNormalize == InitNormalize /\ [][NextNormalize]_vars

\* what is left of one character once accent, case, stroke, spacing and
\* punctuation are set aside: its plain letter or digit, or nothing
C20_Plain(c) ==
    CASE c \in {"U+0110", "U+0111", "d", "D"}          -> <<"d">>
      [] c \in {"U+1EC1", "U+00CA", "e"}               -> <<"e">>
      [] c \in {"U+00E0", "a", "A"}                    -> <<"a">>
      [] c \in {"t", "T"}                              -> <<"t">>
      [] c \in {"i", "I"}                              -> <<"i">>
      [] c = "1"                                       -> <<"1">>
      [] OTHER                                         -> <<>>

RECURSIVE C20_Key(_)
C20_Key(s) == IF s = <<>> THEN <<>> ELSE C20_Plain(Head(s)) \o C20_Key(Tail(s))

\* C20: normalizeString returns, for every value, a string over a-z and 0-9
\* ("" for a value that is not a non-empty string); applying it to its own
\* result changes nothing; the result is the sequence of the plain letters
\* and digits of the input, so inputs that differ only in accents, case,
\* stroke of the d, spacing or punctuation have the same key.
C20_TotalIdempotentKey ==
    /\ pc \in {"once", "twice"} =>
        /\ \A i \in DOMAIN normalized : IsAlnum(normalized[i])
        /\ (argStr.t # "string" \/ argStr.s = <<>>) => normalized = <<>>
        /\ argStr.t = "string" => normalized = C20_Key(argStr.s)
    /\ pc = "twice" => normalizedTwice = normalized

C20_Witness ==
    /\ pc = "twice"
    /\ argStr = Str(X_DeTaiAccented)
    /\ normalized = <<"d","e","t","a","i">>
    /\ normalized = normalizeString(Str(X_DeTaiPlain))
    /\ normalized = normalizeString(Str(X_DeTaiUpper))
    /\ normalizedTwice = normalized


(***************************************************************************)
(* SpecFiles: the handlers of App.tsx together with the four file          *)
(* uploaders of the files view (part_000:247-257), starting with no file   *)
(* chosen.                                                                 *)
(***************************************************************************)
InitFiles ==
    /\ pc = "idle"
    /\ mainFile = NoFile /\ supplementaryFile = NoFile
    /\ reportDataFile = NoFile /\ wordTemplateFile = NoFile
    /\ mergedData = NullData
    /\ dashboardStats = NullStats
    /\ categorizedProjects = NullCategorized
    /\ activeView = "files"
    /\ logs = <<>>
    /\ downloads = <<>>
    /\ isProcessing = FALSE
    /\ dataForReport = NullData
    /\ closure = NoClosure
    /\ awaited = NothingAwaited
    /\ ConfigDefault /\ ClassifyIdle /\ ReportIdle /\ MainIdle /\ MergeIdle
    /\ UtilIdle /\ SheetIdle

selectOther ==
    <<pc, configVars, reportVars, mergedData, dashboardStats, categorizedProjects,
      activeView, logs, downloads, isProcessing, dataForReport, closure, awaited,
      appOther>>

\* part_000:247  onFileSelect={setMainFile}
SelectMainFile ==
    /\ activeView = "files"
    /\ mainFile' \in MainChoices \ {mainFile}
    /\ UNCHANGED <<supplementaryFile, reportDataFile, wordTemplateFile, selectOther>>

\* part_000:248  onFileSelect={setSupplementaryFile}
SelectSupplementaryFile ==
    /\ activeView = "files"
    /\ supplementaryFile' \in SuppChoices \ {supplementaryFile}
    /\ UNCHANGED <<mainFile, reportDataFile, wordTemplateFile, selectOther>>

\* part_000:256  onFileSelect={setReportDataFile}
SelectReportDataFile ==
    /\ activeView = "files"
    /\ reportDataFile' \in ReportChoices \ {reportDataFile}
    /\ UNCHANGED <<mainFile, supplementaryFile, wordTemplateFile, selectOther>>

\* part_000:257  onFileSelect={setWordTemplateFile}
SelectWordTemplateFile ==
    /\ activeView = "files"
    /\ wordTemplateFile' \in TemplateChoices \ {wordTemplateFile}
    /\ UNCHANGED <<mainFile, supplementaryFile, reportDataFile, selectOther>>

NextFiles ==
    \/ SelectMainFile \/ SelectSupplementaryFile
    \/ SelectReportDataFile \/ SelectWordTemplateFile
    \/ SetIsFirstCheck \/ SetProjectType \/ SetActiveView
    \/ MergeStart \/ MergeSucceeds \/ MergeFails
    \/ GenerateRead \/ GenerateSourceFails \/ GenerateNoData \/ GenerateStart
    \/ AppRenderRecord \/ AppRenderFails \/ GenerateFinish

SpecFiles == InitFiles /\ [][NextFiles]_vars


\* C21: isProcessing is true exactly while a handler is between its start
\* and its end; a handler starts only when none is running, and only a
\* running handler changes mergedData or dashboardStats.
C21_OneOperationAtATime ==
    [][/\ isProcessing <=> pc # "idle"
       /\ isProcessing' <=> pc' # "idle"
       /\ (pc' \in {"merging", "reading"} /\ pc' # pc) => (pc = "idle" /\ ~isProcessing)
       /\ (awaited' # awaited) => (pc = "idle" /\ ~isProcessing)
       /\ (mergedData' # mergedData \/ dashboardStats' # dashboardStats) => isProcessing]_vars

\* reports are being rendered while both input files are chosen: the merge
\* button would be enabled but for isProcessing
C21_Witness ==
    /\ pc = "rendering" /\ isProcessing
    /\ index >= 1
    /\ mainFile.chosen /\ supplementaryFile.chosen
    /\ Len(logs) < MaxLogs


\* the records or the error of a source, without the log entries
C22_Outcome(r) == [error |-> r.error, rows |-> r.rows]

\* C22: handleGenerateReports starts only with a template and a source; it
\* awaits the data file if one is chosen, else takes the records kept in
\* mergedData, else merges the two input files; a source without records
\* ends the handler with nothing rendered and nothing downloaded.
C22_SourcePriority ==
    [][/\ (~isProcessing /\ pc' = "reading") =>
            /\ wordTemplateFile.chosen
            /\ \/ reportDataFile.chosen
               \/ ~mergedData.isNull
               \/ mainFile.chosen /\ supplementaryFile.chosen
            /\ C22_Outcome(awaited') =
                 IF reportDataFile.chosen
                 THEN C22_Outcome(readReportFile(reportDataFile))
                 ELSE IF ~mergedData.isNull
                      THEN [error |-> "", rows |-> mergedData.rows]
                      ELSE C22_Outcome(generateMergedExcel(mainFile, supplementaryFile))
       /\ (pc = "reading" /\ awaited.error = "" /\ awaited.rows = <<>> /\ pc' # pc) =>
            /\ pc' = "idle"
            /\ downloads' = downloads
            /\ reportsZip' = reportsZip /\ index' = index
            /\ mergedData' = mergedData]_vars

\* a data file is being read although records of an earlier merge are kept;
\* the records it gives are not those of the merge
C22_Witness ==
    /\ pc = "reading"
    /\ reportDataFile.chosen
    /\ ~mergedData.isNull /\ mergedData.rows # <<>>
    /\ CountOf(downloads, "File_Gop.xlsx") = 1
    /\ awaited.error = "" /\ awaited.rows # <<>>
    /\ awaited.rows # mergedData.rows


\* the step in which handleGenerateReports saves the package and sets the
\* statistics
C23_Finishes == pc = "rendering" /\ index = batchSize /\ pc' = "idle"

\* the category of a record, by the thresholds of getConclusionCategory
C23_CategoryOf(r) == getConclusionCategory(OrZero(r.tv), statsProjectType', closure.isFirstCheck)

\* the positions of the records used that fall in a category
C23_Positions(cat) ==
    {i \in DOMAIN dataForReport.rows : C23_CategoryOf(dataForReport.rows[i]) = cat}

\* a list holds the records at the given positions, in the order of the
\* positions
C23_ListsExactly(list, positions) ==
    /\ Len(list) = Cardinality(positions)
    /\ \A n \in DOMAIN list :
         \E i \in positions :
            /\ Cardinality({j \in positions : j < i}) = n - 1
            /\ list[n] = dataForReport.rows[i]

\* C23: the step that finishes a generation sets totalProjects to the number
\* of records used, the four counts add up to it, every record falls in one
\* of the four categories, and each list of categorizedProjects holds the
\* records of its category in record order, as many as its count says.
C23_StatsPartitionRecords ==
    [][C23_Finishes =>
         /\ ~dashboardStats'.isNull /\ ~categorizedProjects'.isNull
         /\ dashboardStats'.totalProjects = Len(dataForReport.rows)
         /\ dashboardStats'.withinLimit + dashboardStats'.l1Edit
              + dashboardStats'.l2Process + dashboardStats'.l2Exceeded
              = dashboardStats'.totalProjects
         /\ \A i \in DOMAIN dataForReport.rows :
              C23_CategoryOf(dataForReport.rows[i]) \in Categories
         /\ \A cat \in Categories :
              /\ C23_ListsExactly(categorizedProjects'[cat], C23_Positions(cat))
              /\ dashboardStats'[cat] = Len(categorizedProjects'[cat])]_vars

\* a generation has finished with records in more than one category
C23_Witness ==
    /\ pc = "idle"
    /\ CountOf(downloads, "Cac_Bao_Cao.zip") >= 1
    /\ ~dashboardStats.isNull /\ ~categorizedProjects.isNull
    /\ dashboardStats.totalProjects = 3
    /\ Cardinality({cat \in Categories : categorizedProjects[cat] # <<>>}) >= 2


\* C24: whenever dashboardStats and categorizedProjects are both set, each
\* of the four counts is the length of the list handleStatClick would show
\* for that category.
C24_CountsMatchLists ==
    (~dashboardStats.isNull /\ ~categorizedProjects.isNull) =>
        \A cat \in Categories : dashboardStats[cat] = Len(categorizedProjects[cat])


\* the step in which handleGenerateReports ends in its catch block
C25_GenerationFails ==
    /\ pc' = "idle"
    /\ \/ pc = "reading" /\ awaited.error # ""
       \/ pc = "rendering" /\ index < batchSize

\* C25: when a generation fails, mergedData is what it was when the handler
\* was started, and the failing step changes neither dashboardStats nor
\* categorizedProjects.
C25_FailedGenerationRestores ==
    [][C25_GenerationFails =>
         /\ mergedData' = closure.mergedData
         /\ dashboardStats' = dashboardStats
         /\ categorizedProjects' = categorizedProjects]_vars

\* what does hold: a generation whose source cannot be read leaves the three
\* as they were
C25_FailedReadRestores ==
    [][(pc = "reading" /\ awaited.error # "" /\ pc' = "idle") =>
         /\ mergedData' = closure.mergedData
         /\ dashboardStats' = dashboardStats
         /\ categorizedProjects' = categorizedProjects]_vars


\* handleGenerateReports starts with no data file chosen and both input
\* files chosen
C26_StartsFromInputFiles ==
    /\ ~isProcessing /\ pc' = "reading"
    /\ ~reportDataFile.chosen
    /\ mainFile.chosen /\ supplementaryFile.chosen

\* C26: with no data file chosen, the records a generation uses are those
\* the currently chosen main and supplementary files merge to.
C26_UsesCurrentFiles ==
    [][C26_StartsFromInputFiles =>
         C22_Outcome(awaited') =
             C22_Outcome(generateMergedExcel(mainFile, supplementaryFile))]_vars

\* what does hold: the chosen files are merged when no records are kept
C26_UsesCurrentFilesWhenNothingKept ==
    [][(C26_StartsFromInputFiles /\ mergedData.isNull) =>
         C22_Outcome(awaited') =
             C22_Outcome(generateMergedExcel(mainFile, supplementaryFile))]_vars


(***************************************************************************)
(* SpecAppLive: the handlers of App.tsx on small files, where every        *)
(* awaited read, merge or render eventually resolves or rejects, so that a *)
(* running handler takes its next step.                                    *)
(***************************************************************************)
HandlerStep ==
    \/ MergeSucceeds \/ MergeFails
    \/ GenerateSourceFails \/ GenerateNoData \/ GenerateStart
    \/ AppRenderRecord \/ AppRenderFails \/ GenerateFinish

InitLive ==
    /\ pc = "idle"
    /\ mainFile \in {GridFile(GridTiny), Unreadable}
    /\ supplementaryFile = GridFile(SuppTiny)
    /\ reportDataFile \in {NoFile, GridFile(DataTiny), GridFile(DataNoName)}
    /\ wordTemplateFile = Template(N_template)
    /\ mergedData = NullData
    /\ dashboardStats = NullStats
    /\ categorizedProjects = NullCategorized
    /\ activeView = "files"
    /\ logs = <<>>
    /\ downloads = <<>>
    /\ isProcessing = FALSE
    /\ dataForReport = NullData
    /\ closure = NoClosure
    /\ awaited = NothingAwaited
    /\ ConfigDefault /\ ClassifyIdle /\ ReportIdle /\ MainIdle /\ MergeIdle
    /\ UtilIdle /\ SheetIdle

SpecAppLive == InitLive /\ [][NextApp]_vars /\ WF_vars(HandlerStep)

\* C27: whenever isProcessing is true it becomes false again.
C27_FlagReleased == isProcessing ~> ~isProcessing

\* a generation has returned early for lack of records and the buttons are
\* enabled again
C27_Witness ==
    /\ pc = "idle" /\ ~isProcessing
    /\ logs # <<>> /\ logs[Len(logs)] = "warning"
    /\ awaited.error = "" /\ awaited.rows = <<>>


\* a title that is there and is more than white space
C28_NonBlankTitle(v) ==
    /\ v \notin {Null, Undefined}
    /\ v.t = "string" => Trim(v.s) # <<>>

\* C28: every record processMainData returns has a non-blank topic title.
C28_TitlesNonBlank ==
    (pc = "done" /\ mainProcessed.error = "") =>
        \A k \in DOMAIN mainProcessed.rows :
            C28_NonBlankTitle(mainProcessed.rows[k].tendetai)

\* what does hold: the titles are non-blank when every student row has a
\* non-blank topic cell above it or beside it and no topic cell is white
\* space only
C28_TitlesNonBlankBelowATopic ==
    (/\ pc = "done" /\ mainProcessed.error = ""
     /\ \A i \in C8_Retained : C8_Seen(i) # {}
     /\ \A i \in DOMAIN C8_DataRows : C8_Topic(i) # Str(T_space)) =>
        \A k \in DOMAIN mainProcessed.rows :
            C28_NonBlankTitle(mainProcessed.rows[k].tendetai)

=============================================================================
